---- MODULE Spec2Model ----
(***************************************************************************)
(* Upbit Alpha Desk: the throttled executor (UpbitRateLimiter) and the     *)
(* tiered recompute schedulers (ListingStrategyScheduler,                  *)
(* ListingCalendarScheduler), modelled as state machines over one clock.   *)
(***************************************************************************)
EXTENDS Integers, Sequences, FiniteSets, TLC

\* ------------------------------------------------------------------ bounds
MaxTime == 4
MaxInterval == 2
MaxBackoff == 2
MaxRetriesCfg == 2
NumCallers == 2
MaxCalls == 2
MaxStarts == 2
MaxRuns == 2
MaxCoins == 1
IntervalTicks == 2

\* The settlement of an operation that resolves, and "nothing yet".
Ok == [ok |-> TRUE]
NoOutcome == [kind |-> "none"]

VARIABLES
  now,               \* Date.now(), in clock ticks
  \* --- UpbitRateLimiter
  minIntervalMs, maxRetries, retryBackoffMs,
  operations,        \* the operations callers pass to execute
  lastCallTimestamp,
  pc,                \* per caller: position inside execute
  script,            \* per caller: behaviour of the operation passed to execute
  attempt,           \* per caller: execute's local `attempt`
  calls,             \* per caller: invocations of fn in the current execute
  backoffs,          \* per caller: backoff sleeps in the current execute
  wakeAt,            \* per caller: due time of the pending sleep timer
  outcome,           \* per caller: what the current execute returned or threw
  issuedAt,          \* per caller: time the current execute was called
  executes,          \* per caller: execute calls issued so far
  nAttempts,         \* operation attempts started so far, counted up to 2
  prevAttemptAt, lastAttemptAt,   \* start times of the two latest attempts
  overlapped,        \* TRUE once execute was called while another call was inside execute
  \* --- ListingStrategyScheduler / ListingCalendarScheduler
  kind,              \* "strategy" or "calendar": which of the two classes this is
  supportedCoins,    \* dataManager.getSupportedCoins().length
  persistPath,       \* TRUE when options.persistPath is set
  redisClient,       \* TRUE when getRedisClient() returns a client
  status, report, lastUpdated, nextRunAt, lastError,
  timer,             \* this.timer: the handle of the latest setTimeout
  leaked,            \* pending timers whose handle this.timer no longer holds
  diskTier, redisTier,   \* the persisted snapshots
  startPc,           \* per start() call: its position
  startLog,          \* per start() call: what its warm load did
  runs, runSeq,      \* the runAnalysis calls that went past their guards
  lastTrigger,       \* what the latest runAnalysis call did
  everStopped,       \* stop() has been called
  stopped,           \* stop() has been called and start() not since
  anySuccess,        \* some run's compute has completed successfully
  snapshot,          \* what getSnapshot() returned, when it is the latest call made
  \* --- buildListingStrategyReport
  grid,              \* LISTING_SCENARIOS, the exported array
  batch,             \* coins.slice(0, maxCoins).length
  pipePc,            \* position of buildListingStrategyReport
  coinIdx,           \* index in the batch of the coin being processed
  klines,            \* the hourly bars the hourly source holds for the assets
  analyzedCoins,     \* analyzedCoins
  summaryMap,        \* summaryMap
  evaluated,         \* the coins whose bars went through the scenario loops
  caught,            \* the coins whose turn of the loop ended in the catch block
  hourlyFetches,     \* the hourly fetches issued, each with whether execute was on the stack
  cooldownAt,        \* due time of the inter-asset sleep
  \* --- ListingCalendarScheduler.computeListingDates / fetchOldestDate
  calPc,             \* position of computeListingDates
  calBatch,          \* coins.slice(0, maxCoins).length
  calIdx,            \* index in the batch of the coin being processed
  currentDate, attempts, oldestDate,   \* the locals of fetchOldestDate
  responses,         \* the candle requests that have settled and been handled
  results,           \* results of computeListingDates
  discoveryLog,      \* per coin: the pages its discovery got and how it ended
  calCooldownAt,     \* due time of the inter-asset sleep
  calServed,         \* entries, recentCount and lastUpdated of the calendar scheduler
  calTiers,          \* what the cache file and the Redis key of the calendar hold
  \* --- the ticker cache and GET /api/ticker
  tickerCache,       \* tickerCache
  tickerFile,        \* the content of TICKER_CACHE_FILE
  reqPc,             \* per request: position inside the route handler
  reqKey,            \* per request: its cacheKey
  reqData,           \* per request: the payload fetchUpbitTicker returned
  served,            \* the latest response sent
  restarts,          \* restarts of the process so far
  \* --- adjustListingDate
  kstTimestamp,      \* the candle_date_time_kst it is called with
  localDayHours,     \* hours between a local time of the server and the same time a day before
  listingDate        \* the date it returned

limiterCfg == <<minIntervalMs, maxRetries, retryBackoffMs, operations>>

limiterVars == <<minIntervalMs, maxRetries, retryBackoffMs, operations,
                 lastCallTimestamp, pc,
                 script, attempt, calls, backoffs, wakeAt, outcome, issuedAt, executes,
                 nAttempts, prevAttemptAt, lastAttemptAt, overlapped>>

schedCore == <<kind, supportedCoins, persistPath, redisClient, status, report,
               lastUpdated, nextRunAt, lastError, timer, leaked, diskTier, redisTier,
               startPc, startLog, runs, runSeq, lastTrigger, everStopped, stopped,
               anySuccess>>

schedVars == <<schedCore, snapshot>>

pipeVars == <<grid, batch, pipePc, coinIdx, klines, analyzedCoins, summaryMap, evaluated, caught,
              hourlyFetches, cooldownAt>>

calVars == <<calPc, calBatch, calIdx, currentDate, attempts, oldestDate, responses, results,
             discoveryLog, calCooldownAt, calServed, calTiers>>

tickerVars == <<tickerCache, tickerFile, reqPc, reqKey, reqData, served, restarts>>

dateVars == <<kstTimestamp, localDayHours, listingDate>>

vars == <<now, limiterVars, schedVars, pipeVars, calVars, tickerVars, dateVars>>

Callers == 1..NumCallers

\* ------------------------------------------------------- operation inputs
\* Errors an operation can throw.  resp is error.response.status and status is
\* error.status, 0 standing for undefined; obj is FALSE for a thrown non-object
\* (a string, null).
ErrResp429 == [ok |-> FALSE, obj |-> TRUE, resp |-> 429, status |-> 0]
ErrStatus429 == [ok |-> FALSE, obj |-> TRUE, resp |-> 0, status |-> 429]
ErrResp500 == [ok |-> FALSE, obj |-> TRUE, resp |-> 500, status |-> 429]
ErrPlain == [ok |-> FALSE, obj |-> TRUE, resp |-> 0, status |-> 0]
ErrNonObject == [ok |-> FALSE, obj |-> FALSE, resp |-> 0, status |-> 0]

ErrorSamples == {ErrResp429, ErrStatus429, ErrResp500, ErrPlain, ErrNonObject}

\* An operation as execute can observe it: it is rejected with a 429 response on
\* its first `fails` invocations and settles with `final` on every later one
\* (execute never invokes an operation again after a resolution or after an
\* error it does not retry).
MaxFails == MaxRetriesCfg + 1
Scripts == [fails : 0..MaxFails, final : {Ok} \cup ErrorSamples]

NoScript == [fails |-> 0, final |-> Ok]

OpOutcome(sc, n) == IF n <= sc.fails THEN ErrResp429 ELSE sc.final

\* ------------------------------------------------------ UpbitRateLimiter
\* Mutant: error.status wins over error.response.status.
isRetryableAnyStatus(error) == error.obj /\ (error.resp = 429 \/ error.status = 429)

isRetryable(error) ==
  IF ~error.obj THEN FALSE
  ELSE LET st == IF error.resp # 0 THEN error.resp ELSE error.status
       IN st = 429

\* throttle() up to its first suspension: TRUE when it has to sleep.
MustSleep == lastCallTimestamp # 0 /\ now - lastCallTimestamp < minIntervalMs

InExecute(c) == pc[c] \in {"throttleSleep", "inFn", "backoff"}

\* throttle() ends (this.lastCallTimestamp = Date.now()) and execute calls fn()
\* in the same turn of the event loop; n is the number of earlier invocations.
Invoke(c, n) ==
  /\ lastCallTimestamp' = now
  /\ pc' = [pc EXCEPT ![c] = "inFn"]
  /\ calls' = [calls EXCEPT ![c] = n + 1]
  /\ nAttempts' = IF nAttempts < 2 THEN nAttempts + 1 ELSE 2
  /\ prevAttemptAt' = lastAttemptAt
  /\ lastAttemptAt' = now
  /\ UNCHANGED wakeAt

\* Mutant: throttle() that never sleeps.
throttleNoSleep(c, n) == Invoke(c, n)

\* await this.throttle() entered at the head of execute's loop.
throttle(c, n) ==
  IF MustSleep
  THEN /\ pc' = [pc EXCEPT ![c] = "throttleSleep"]
       /\ wakeAt' = [wakeAt EXCEPT ![c] = now + (minIntervalMs - (now - lastCallTimestamp))]
       /\ calls' = [calls EXCEPT ![c] = n]
       /\ UNCHANGED <<lastCallTimestamp, nAttempts, prevAttemptAt, lastAttemptAt>>
  ELSE Invoke(c, n)

\* execute(fn) is called by caller c with an operation behaving as sc.
Execute(c, sc) ==
  /\ pc[c] \in {"idle", "returned", "threw"}
  /\ executes[c] < MaxCalls
  /\ executes' = [executes EXCEPT ![c] = @ + 1]
  /\ script' = [script EXCEPT ![c] = sc]
  /\ attempt' = [attempt EXCEPT ![c] = 0]
  /\ backoffs' = [backoffs EXCEPT ![c] = 0]
  /\ outcome' = [outcome EXCEPT ![c] = NoOutcome]
  /\ issuedAt' = [issuedAt EXCEPT ![c] = now]
  /\ overlapped' = (overlapped \/ \E d \in Callers \ {c} : InExecute(d))
  /\ throttle(c, 0)
  /\ UNCHANGED <<dateVars, now, schedVars, pipeVars, calVars, tickerVars, limiterCfg>>

\* The sleep inside throttle() is over (a timer never fires early, it may fire late).
ThrottleWake(c) ==
  /\ pc[c] = "throttleSleep"
  /\ now >= wakeAt[c]
  /\ Invoke(c, calls[c])
  /\ UNCHANGED <<dateVars, now, schedVars, pipeVars, calVars, tickerVars, limiterCfg, script, attempt,
                 backoffs, outcome, issuedAt, executes, overlapped>>

\* fn() resolves: execute returns its value.
OpResolve(c) ==
  /\ pc[c] = "inFn"
  /\ OpOutcome(script[c], calls[c]) = Ok
  /\ pc' = [pc EXCEPT ![c] = "returned"]
  /\ outcome' = [outcome EXCEPT ![c] = [kind |-> "value", ofCall |-> calls[c]]]
  /\ UNCHANGED <<dateVars, now, schedVars, pipeVars, calVars, tickerVars, limiterCfg, lastCallTimestamp,
                 script, attempt, calls, backoffs, wakeAt, issuedAt, executes, nAttempts,
                 prevAttemptAt, lastAttemptAt, overlapped>>

\* Mutants: the retry limit off by one, either way.
GivesUpEarly(error, att) == ~isRetryable(error) \/ att >= maxRetries
GivesUpLate(error, att) == ~isRetryable(error) \/ att > maxRetries + 1

\* The catch block's decision, with attempt already incremented.
GivesUp(error, att) == ~isRetryable(error) \/ att > maxRetries

\* Mutant: the backoff does not grow with the attempt.
OpRejectConstantBackoff(c) ==
  /\ pc[c] = "inFn"
  /\ OpOutcome(script[c], calls[c]) # Ok
  /\ LET error == OpOutcome(script[c], calls[c])
         att == attempt[c] + 1
     IN /\ attempt' = [attempt EXCEPT ![c] = att]
        /\ IF GivesUp(error, att)
           THEN /\ pc' = [pc EXCEPT ![c] = "threw"]
                /\ outcome' = [outcome EXCEPT ![c] =
                                 [kind |-> "error", error |-> error, ofCall |-> calls[c]]]
                /\ UNCHANGED <<wakeAt, backoffs>>
           ELSE /\ pc' = [pc EXCEPT ![c] = "backoff"]
                /\ wakeAt' = [wakeAt EXCEPT ![c] = now + retryBackoffMs]
                /\ backoffs' = [backoffs EXCEPT ![c] = @ + 1]
                /\ UNCHANGED outcome
  /\ UNCHANGED <<dateVars, now, schedVars, pipeVars, calVars, tickerVars, limiterCfg, lastCallTimestamp,
                 script, calls, issuedAt, executes, nAttempts, prevAttemptAt,
                 lastAttemptAt, overlapped>>

\* fn() rejects: the catch block of execute.
OpReject(c) ==
  /\ pc[c] = "inFn"
  /\ OpOutcome(script[c], calls[c]) # Ok
  /\ LET error == OpOutcome(script[c], calls[c])
         att == attempt[c] + 1
     IN /\ attempt' = [attempt EXCEPT ![c] = att]
        /\ IF GivesUp(error, att)
           THEN /\ pc' = [pc EXCEPT ![c] = "threw"]
                /\ outcome' = [outcome EXCEPT ![c] =
                                 [kind |-> "error", error |-> error, ofCall |-> calls[c]]]
                /\ UNCHANGED <<wakeAt, backoffs>>
           ELSE /\ pc' = [pc EXCEPT ![c] = "backoff"]
                /\ wakeAt' = [wakeAt EXCEPT ![c] = now + retryBackoffMs * att]
                /\ backoffs' = [backoffs EXCEPT ![c] = @ + 1]
                /\ UNCHANGED outcome
  /\ UNCHANGED <<dateVars, now, schedVars, pipeVars, calVars, tickerVars, limiterCfg, lastCallTimestamp,
                 script, calls, issuedAt, executes, nAttempts, prevAttemptAt,
                 lastAttemptAt, overlapped>>

\* The backoff sleep is over: the loop comes round to await this.throttle().
BackoffWake(c) ==
  /\ pc[c] = "backoff"
  /\ now >= wakeAt[c]
  /\ throttle(c, calls[c])
  /\ UNCHANGED <<dateVars, now, schedVars, pipeVars, calVars, tickerVars, limiterCfg, script, attempt,
                 backoffs, outcome, issuedAt, executes, overlapped>>

\* ------------------------------------------------------------ schedulers
Starts == 1..MaxStarts
Runs == 1..MaxRuns

\* lastUpdated / nextRunAt: null.
NoDate == -1
\* this.report = null (strategy), this.entries = [] (calendar).
NoData == [gen |-> 0, stamp |-> NoDate]
\* What a run of an earlier process left in a tier, generated before this one began.
PrevData == [gen |-> MaxRuns + 1, stamp |-> 0]
\* lastError: undefined.
NoError == "undefined"
\* The errors a compute pipeline can throw: with a message, and without one.
ComputeErrors == {"boom", NoError}

NoSnapshot == [present |-> FALSE, data |-> NoData, lastUpdated |-> NoDate]
PrevSnapshot == [present |-> TRUE, data |-> PrevData, lastUpdated |-> 0]

NoTimer == [pending |-> FALSE, at |-> 0]
NoRun == [pc |-> "none", built |-> NoData, reportAtStart |-> NoData,
          lastUpdatedAtStart |-> NoDate, touched |-> FALSE]
\* A run that is over: nothing of it is referred to any more.
Ended(how) == [NoRun EXCEPT !.pc = how]
NoLog == [redis |-> "untried", disk |-> "untried", triggered |-> FALSE]

\* The report a strategy run builds carries generatedAt; calendar entries carry no date.
Built(r) == [gen |-> r, stamp |-> IF kind = "strategy" THEN now ELSE NoDate]

\* JSON.stringify(report) (strategy) and
\* JSON.stringify({entries, recentCount, lastUpdated}) (calendar).
Serialize(rep) ==
  [present |-> TRUE, data |-> rep,
   lastUpdated |-> IF kind = "strategy" THEN rep.stamp ELSE lastUpdated]

\* lastUpdated as loadFromRedis / loadFromDisk set it from a parsed snapshot.
LoadedLastUpdated(snap) ==
  IF kind = "strategy"
  THEN IF snap.data.stamp # NoDate THEN snap.data.stamp ELSE now
  ELSE snap.lastUpdated

\* No start() is between its warm load and its void this.triggerRun(): those run
\* in one turn of the event loop, so nothing else happens in between.
Quiet == \A s \in Starts : startPc[s] # "trigger"

Computing == {r \in Runs : runs[r].pc = "computing"}
InFlight == {r \in Runs : runs[r].pc \in {"computing", "saveDisk", "saveRedis"}}

\* No getSnapshot() call is the latest call made.
NoRead == [status |-> "unread", lastUpdated |-> NoDate, nextRunAt |-> NoDate,
           report |-> NoData, error |-> NoError]

getSnapshot ==
  [status |-> status, lastUpdated |-> lastUpdated, nextRunAt |-> nextRunAt,
   report |-> report,
   error |-> IF kind = "strategy"
             THEN (IF status = "error" THEN lastError ELSE NoError)
             ELSE lastError]

\* scheduleNextRun(): tm and lk are this.timer and the other pending timers as
\* they are when it is called.
scheduleNextRun(tm, lk) ==
  /\ nextRunAt' = now + IntervalTicks
  /\ timer' = [pending |-> TRUE, at |-> now + IntervalTicks]
  /\ leaked' = IF tm.pending THEN [lk EXCEPT ![tm.at] = @ + 1] ELSE lk

\* Mutant: runAnalysis without its `status === 'running'` guard.
triggerRunNoGuard(tm, lk) ==
  IF supportedCoins = 0
  THEN /\ scheduleNextRun(tm, lk)
       /\ lastTrigger' = "empty"
       /\ UNCHANGED <<status, lastError, runs, runSeq>>
  ELSE /\ runSeq < MaxRuns
       /\ status' = "running"
       /\ lastError' = NoError
       /\ runSeq' = runSeq + 1
       /\ runs' = [runs EXCEPT ![runSeq + 1] =
                     [pc |-> "computing", built |-> NoData, reportAtStart |-> report,
                      lastUpdatedAtStart |-> lastUpdated, touched |-> FALSE]]
       /\ lastTrigger' = "started"
       /\ timer' = tm
       /\ leaked' = lk
       /\ UNCHANGED nextRunAt

\* Mutant: status set to 'running' before the catalog is looked at.
triggerRunStatusFirst(tm, lk) ==
  IF status = "running"
  THEN /\ scheduleNextRun(tm, lk)
       /\ lastTrigger' = "dropped"
       /\ UNCHANGED <<status, lastError, runs, runSeq>>
  ELSE IF supportedCoins = 0
  THEN /\ scheduleNextRun(tm, lk)
       /\ lastTrigger' = "empty"
       /\ status' = "running"
       /\ UNCHANGED <<lastError, runs, runSeq>>
  ELSE /\ runSeq < MaxRuns
       /\ status' = "running"
       /\ lastError' = NoError
       /\ runSeq' = runSeq + 1
       /\ runs' = [runs EXCEPT ![runSeq + 1] =
                     [pc |-> "computing", built |-> NoData, reportAtStart |-> report,
                      lastUpdatedAtStart |-> lastUpdated, touched |-> FALSE]]
       /\ lastTrigger' = "started"
       /\ timer' = tm
       /\ leaked' = lk
       /\ UNCHANGED nextRunAt

\* triggerRun() up to the first suspension of runAnalysis(): a call that returns
\* at one of the two guards goes straight on to scheduleNextRun(); one that
\* passes them sets status = 'running' and awaits the compute pipeline.
triggerRun(tm, lk) ==
  IF status = "running"
  THEN /\ scheduleNextRun(tm, lk)
       /\ lastTrigger' = "dropped"
       /\ UNCHANGED <<status, lastError, runs, runSeq>>
  ELSE IF supportedCoins = 0
  THEN /\ scheduleNextRun(tm, lk)
       /\ lastTrigger' = "empty"
       /\ UNCHANGED <<status, lastError, runs, runSeq>>
  ELSE /\ runSeq < MaxRuns
       /\ status' = "running"
       /\ lastError' = NoError
       /\ runSeq' = runSeq + 1
       /\ runs' = [runs EXCEPT ![runSeq + 1] =
                     [pc |-> "computing", built |-> NoData, reportAtStart |-> report,
                      lastUpdatedAtStart |-> lastUpdated, touched |-> FALSE]]
       /\ lastTrigger' = "started"
       /\ timer' = tm
       /\ leaked' = lk
       /\ UNCHANGED nextRunAt

schedCfg == <<kind, supportedCoins, persistPath, redisClient>>

\* Where start() goes once the remote tier has yielded nothing.
AfterRedisMiss == IF persistPath THEN "diskRead" ELSE "trigger"

\* start() is called: loadFromRedis() up to its client.get, or, with no client,
\* on to loadFromDisk()'s readFile, or, with no persistPath either, to triggerRun.
Start(s) ==
  /\ Quiet
  /\ startPc[s] = "new"
  /\ \A t \in Starts : t < s => startPc[t] # "new"
  /\ startPc' = [startPc EXCEPT ![s] = IF redisClient THEN "redisGet" ELSE AfterRedisMiss]
  /\ startLog' = [startLog EXCEPT ![s].redis = IF redisClient THEN "untried" ELSE "absent",
                                  ![s].disk = IF ~redisClient /\ ~persistPath
                                              THEN "unconfigured" ELSE "untried"]
  /\ lastTrigger' = "none"
  /\ stopped' = FALSE
  /\ snapshot' = NoRead
  /\ UNCHANGED <<dateVars, now, limiterVars, pipeVars, calVars, tickerVars, schedCfg, status, report, lastUpdated, nextRunAt,
                 lastError, timer, leaked, diskTier, redisTier, runs, runSeq,
                 everStopped, anySuccess>>

\* Mutant: a load that leaves lastUpdated null.
LoadNoDate(snap) ==
  /\ report' = snap.data
  /\ lastUpdated' = NoDate
  /\ runs' = [r \in Runs |-> IF r \in InFlight
                             THEN [runs[r] EXCEPT !.touched = TRUE] ELSE runs[r]]

\* A snapshot read from a tier becomes the served state.
Load(snap) ==
  /\ report' = snap.data
  /\ lastUpdated' = LoadedLastUpdated(snap)
  /\ runs' = [r \in Runs |-> IF r \in InFlight
                             THEN [runs[r] EXCEPT !.touched = TRUE] ELSE runs[r]]

\* Mutant: the disk snapshot is read whatever the remote tier yielded.
RedisGotThenDisk(s, fails) ==
  /\ Quiet
  /\ startPc[s] = "redisGet"
  /\ IF ~fails /\ redisTier.present
     THEN /\ Load(redisTier)
          /\ startLog' = [startLog EXCEPT ![s].redis = "hit"]
          /\ startPc' = [startPc EXCEPT ![s] = AfterRedisMiss]
     ELSE /\ startLog' = [startLog EXCEPT ![s].redis = "nothing",
                                          ![s].disk = IF persistPath THEN "untried"
                                                      ELSE "unconfigured"]
          /\ startPc' = [startPc EXCEPT ![s] = AfterRedisMiss]
          /\ UNCHANGED <<report, lastUpdated, runs>>
  /\ lastTrigger' = "none"
  /\ snapshot' = NoRead
  /\ UNCHANGED <<dateVars, now, limiterVars, pipeVars, calVars, tickerVars, schedCfg, status, nextRunAt, lastError, timer,
                 leaked, diskTier, redisTier, runSeq, everStopped, stopped, anySuccess>>

\* client.get of loadFromRedis() settles: it throws (or the value does not
\* parse), the key is missing, or the snapshot is loaded and warmed is true.
RedisGot(s, fails) ==
  /\ Quiet
  /\ startPc[s] = "redisGet"
  /\ IF ~fails /\ redisTier.present
     THEN /\ Load(redisTier)
          /\ startLog' = [startLog EXCEPT ![s].redis = "hit"]
          /\ startPc' = [startPc EXCEPT ![s] = "trigger"]
     ELSE /\ startLog' = [startLog EXCEPT ![s].redis = "nothing",
                                          ![s].disk = IF persistPath THEN "untried"
                                                      ELSE "unconfigured"]
          /\ startPc' = [startPc EXCEPT ![s] = AfterRedisMiss]
          /\ UNCHANGED <<report, lastUpdated, runs>>
  /\ lastTrigger' = "none"
  /\ snapshot' = NoRead
  /\ UNCHANGED <<dateVars, now, limiterVars, pipeVars, calVars, tickerVars, schedCfg, status, nextRunAt, lastError, timer,
                 leaked, diskTier, redisTier, runSeq, everStopped, stopped, anySuccess>>

\* readFile of loadFromDisk() settles: the file is missing or corrupt, or the
\* snapshot is loaded.
DiskGot(s, fails) ==
  /\ Quiet
  /\ startPc[s] = "diskRead"
  /\ IF ~fails /\ diskTier.present
     THEN /\ Load(diskTier)
          /\ startLog' = [startLog EXCEPT ![s].disk = "hit"]
     ELSE /\ startLog' = [startLog EXCEPT ![s].disk = "nothing"]
          /\ UNCHANGED <<report, lastUpdated, runs>>
  /\ startPc' = [startPc EXCEPT ![s] = "trigger"]
  /\ lastTrigger' = "none"
  /\ snapshot' = NoRead
  /\ UNCHANGED <<dateVars, now, limiterVars, pipeVars, calVars, tickerVars, schedCfg, status, nextRunAt, lastError, timer,
                 leaked, diskTier, redisTier, runSeq, everStopped, stopped, anySuccess>>

\* void this.triggerRun() at the end of start().
StartTrigger(s) ==
  /\ startPc[s] = "trigger"
  /\ triggerRun(timer, leaked)
  /\ startPc' = [startPc EXCEPT ![s] = "done"]
  /\ startLog' = [startLog EXCEPT ![s].triggered = TRUE]
  /\ snapshot' = NoRead
  /\ UNCHANGED <<dateVars, now, limiterVars, pipeVars, calVars, tickerVars, schedCfg, report, lastUpdated, diskTier, redisTier,
                 everStopped, stopped, anySuccess>>

\* The timer this.timer holds fires: triggerRun().  The handle left in
\* this.timer is that of a timer that is no longer pending.
TimerFire ==
  /\ Quiet
  /\ timer.pending
  /\ now >= timer.at
  /\ triggerRun(NoTimer, leaked)
  /\ snapshot' = NoRead
  /\ UNCHANGED <<dateVars, now, limiterVars, pipeVars, calVars, tickerVars, schedCfg, report, lastUpdated, diskTier, redisTier,
                 startPc, startLog, everStopped, stopped, anySuccess>>

\* A timer whose handle was overwritten fires: triggerRun().
LeakedTimerFire(t) ==
  /\ Quiet
  /\ leaked[t] > 0
  /\ now >= t
  /\ triggerRun(timer, [leaked EXCEPT ![t] = @ - 1])
  /\ snapshot' = NoRead
  /\ UNCHANGED <<dateVars, now, limiterVars, pipeVars, calVars, tickerVars, schedCfg, report, lastUpdated, diskTier, redisTier,
                 startPc, startLog, everStopped, stopped, anySuccess>>

\* stop().
Stop ==
  /\ Quiet
  /\ timer' = NoTimer
  /\ status' = "idle"
  /\ everStopped' = TRUE
  /\ stopped' = TRUE
  /\ lastTrigger' = "none"
  /\ snapshot' = NoRead
  /\ UNCHANGED <<dateVars, now, limiterVars, pipeVars, calVars, tickerVars, schedCfg, report, lastUpdated, nextRunAt, lastError,
                 leaked, diskTier, redisTier, startPc, startLog, runs, runSeq,
                 anySuccess>>

\* The tail of runAnalysis() and of its triggerRun(): the status is set and
\* scheduleNextRun() is called in the same turn of the event loop.
Finish(r, st, err) ==
  /\ status' = st
  /\ lastError' = err
  /\ scheduleNextRun(timer, leaked)

\* The compute pipeline of run r returns: the result is stored, lastUpdated set,
\* and saveToDisk / saveToRedis go as far as their first await.
ComputeOk(r) ==
  /\ Quiet
  /\ runs[r].pc = "computing"
  /\ report' = Built(r)
  /\ lastUpdated' = now
  /\ anySuccess' = TRUE
  /\ LET nxt == IF persistPath THEN "saveDisk"
                ELSE IF redisClient THEN "saveRedis" ELSE "done"
     IN /\ runs' = [q \in Runs |->
                      IF q = r
                      THEN (IF nxt = "done" THEN Ended("done")
                            ELSE [runs[q] EXCEPT !.pc = nxt, !.touched = FALSE,
                                    !.built = IF kind = "strategy" THEN Built(r) ELSE NoData])
                      ELSE IF q \in InFlight THEN [runs[q] EXCEPT !.touched = TRUE]
                      ELSE runs[q]]
        /\ IF nxt = "done"
           THEN Finish(r, "idle", lastError)
           ELSE UNCHANGED <<status, lastError, nextRunAt, timer, leaked>>
  /\ lastTrigger' = "none"
  /\ snapshot' = NoRead
  /\ UNCHANGED <<dateVars, now, limiterVars, pipeVars, calVars, tickerVars, schedCfg, diskTier, redisTier, startPc, startLog,
                 runSeq, everStopped, stopped>>

\* What a save writes: the run's own report (strategy), the entries and
\* lastUpdated held when the write is made (calendar).
SaveContent(r) == IF kind = "strategy" THEN Serialize(runs[r].built) ELSE Serialize(report)

\* Mutant: a failed disk write is not caught and ends the run in error.
DiskSavedPropagates(r, fails) ==
  /\ Quiet
  /\ runs[r].pc = "saveDisk"
  /\ diskTier' = IF fails THEN diskTier ELSE SaveContent(r)
  /\ IF fails
     THEN /\ runs' = [runs EXCEPT ![r] = Ended("failed")]
          /\ Finish(r, "error", "boom")
     ELSE IF redisClient
     THEN /\ runs' = [runs EXCEPT ![r].pc = "saveRedis"]
          /\ UNCHANGED <<status, lastError, nextRunAt, timer, leaked>>
     ELSE /\ runs' = [runs EXCEPT ![r] = Ended("done")]
          /\ Finish(r, "idle", lastError)
  /\ lastTrigger' = "none"
  /\ snapshot' = NoRead
  /\ UNCHANGED <<dateVars, now, limiterVars, pipeVars, calVars, tickerVars, schedCfg, report, lastUpdated, redisTier, startPc,
                 startLog, runSeq, everStopped, stopped, anySuccess>>

\* saveToDisk() of run r settles: written, or failed and logged.
DiskSaved(r, fails) ==
  /\ Quiet
  /\ runs[r].pc = "saveDisk"
  /\ diskTier' = IF fails THEN diskTier ELSE SaveContent(r)
  /\ IF redisClient
     THEN /\ runs' = [runs EXCEPT ![r].pc = "saveRedis"]
          /\ UNCHANGED <<status, lastError, nextRunAt, timer, leaked>>
     ELSE /\ runs' = [runs EXCEPT ![r] = Ended("done")]
          /\ Finish(r, "idle", lastError)
  /\ lastTrigger' = "none"
  /\ snapshot' = NoRead
  /\ UNCHANGED <<dateVars, now, limiterVars, pipeVars, calVars, tickerVars, schedCfg, report, lastUpdated, redisTier, startPc,
                 startLog, runSeq, everStopped, stopped, anySuccess>>

\* saveToRedis() of run r settles: written, or failed and logged.
RedisSaved(r, fails) ==
  /\ Quiet
  /\ runs[r].pc = "saveRedis"
  /\ redisTier' = IF fails THEN redisTier ELSE SaveContent(r)
  /\ runs' = [runs EXCEPT ![r] = Ended("done")]
  /\ Finish(r, "idle", lastError)
  /\ lastTrigger' = "none"
  /\ snapshot' = NoRead
  /\ UNCHANGED <<dateVars, now, limiterVars, pipeVars, calVars, tickerVars, schedCfg, report, lastUpdated, diskTier, startPc,
                 startLog, runSeq, everStopped, stopped, anySuccess>>

\* Mutant: the catch block also drops the report/entries held.
ComputeFailClears(r, e) ==
  /\ Quiet
  /\ runs[r].pc = "computing"
  /\ runs' = [runs EXCEPT ![r] = Ended("failed")]
  /\ Finish(r, "error", IF e = NoError THEN "Unknown error" ELSE e)
  /\ report' = NoData
  /\ lastTrigger' = "none"
  /\ snapshot' = NoRead
  /\ UNCHANGED <<dateVars, now, limiterVars, pipeVars, calVars, tickerVars, schedCfg, lastUpdated, diskTier, redisTier,
                 startPc, startLog, runSeq, everStopped, stopped, anySuccess>>

\* The compute pipeline of run r throws e: the catch block of runAnalysis().
ComputeFail(r, e) ==
  /\ Quiet
  /\ runs[r].pc = "computing"
  /\ runs' = [runs EXCEPT ![r] = Ended("failed")]
  /\ Finish(r, "error", IF e = NoError THEN "Unknown error" ELSE e)
  /\ lastTrigger' = "none"
  /\ snapshot' = NoRead
  /\ UNCHANGED <<dateVars, now, limiterVars, pipeVars, calVars, tickerVars, schedCfg, report, lastUpdated, diskTier, redisTier,
                 startPc, startLog, runSeq, everStopped, stopped, anySuccess>>

\* Mutant: a getSnapshot() that also kicks a run.
GetSnapshotTriggers ==
  /\ Quiet
  /\ snapshot' = getSnapshot
  /\ triggerRun(timer, leaked)
  /\ UNCHANGED <<dateVars, now, limiterVars, pipeVars, calVars, tickerVars, schedCfg, report, lastUpdated, diskTier,
                 redisTier, startPc, startLog, everStopped, stopped, anySuccess>>

\* getSnapshot() is called and returns.
GetSnapshot ==
  /\ Quiet
  /\ snapshot' = getSnapshot
  /\ UNCHANGED <<dateVars, now, limiterVars, pipeVars, calVars, tickerVars, schedCore>>

\* ------------------------------------------ buildListingStrategyReport
MaxBatch == 2
MaxBars == 3
CooldownTicks == 1

HOLD_HOURS == 24
\* A number that is not finite, and the null of a profile price.
NaN == -1
Null == -2

BASE_SCENARIOS ==
  << [id |-> "D0_OPEN", entryHours |-> 0], [id |-> "D0_12H", entryHours |-> 12],
     [id |-> "D1_OPEN", entryHours |-> 24], [id |-> "D3_OPEN", entryHours |-> 72],
     [id |-> "D5_OPEN", entryHours |-> 120] >>

PRICE_PROFILES == << [id |-> "HIGH"], [id |-> "MID"], [id |-> "LOW"] >>

\* Mutant: the id of a scenario without its profile.
ScenarioIdBaseOnly(base, profile) == base.id

\* `${base.id}_${profile.id}`
ScenarioId(base, profile) == base.id \o "_" \o profile.id

\* BASE_SCENARIOS.flatMap(base => PRICE_PROFILES.map(profile => ...))
LISTING_SCENARIOS ==
  [i \in 1..(Len(BASE_SCENARIOS) * Len(PRICE_PROFILES)) |->
     LET base == BASE_SCENARIOS[((i - 1) \div Len(PRICE_PROFILES)) + 1]
         profile == PRICE_PROFILES[((i - 1) % Len(PRICE_PROFILES)) + 1]
     IN [id |-> ScenarioId(base, profile), entryHours |-> base.entryHours,
         priceProfile |-> profile.id]]

Max(S) == CHOOSE x \in S : \A y \in S : y <= x
Min(S) == CHOOSE x \in S : \A y \in S : x <= y

\* Prices, in the smallest unit of the quote currency; even, so that the mean of
\* two of them is computed without rounding, as it is for the doubles met in practice.
Prices == {4018, 7634}
\* Start times of bars, in hours after 00:00 KST of the listing date.
BarStarts == {0, 12, 24, 36}

\* One bar of the hourly source: a well-formed bar (low <= close <= high; to
\* keep the series few, one that closes at its low), a bar whose high and low
\* did not parse, or a bar whose low and close parsed to zero.
Bars ==
  {k \in [start : BarStarts, high : Prices, low : Prices, close : Prices] :
     k.low <= k.high /\ k.close = k.low} \cup
  {[start |-> t, high |-> NaN, low |-> NaN, close |-> Min(Prices)] : t \in BarStarts} \cup
  {[start |-> t, high |-> Min(Prices), low |-> 0, close |-> 0] : t \in BarStarts}

\* What fetchBybitHourlyKlines can return: bars sorted by start.
Series ==
  {ser \in UNION {[1..n -> Bars] : n \in 0..MaxBars} :
     \A i \in 1..(Len(ser) - 1) : ser[i].start < ser[i + 1].start}

\* Prices of a market that falls from 100 to 10, and the bar starts of a series
\* that begins one bar before the listing time and has a bar at every step.
FallingLadder == {1000, 2500, 4000, 5500, 7000, 8500, 10000}
CoveringStarts == <<-1, 0, 12, 24, 36>>

\* Series whose prices fall strictly: each bar opens at its high, where the bar
\* before it closed, and closes at its low.
FallingSeries ==
  {[i \in DOMAIN CoveringStarts |->
      [start |-> CoveringStarts[i],
       high |-> Max({p \in FallingLadder \ {skip} :
                       Cardinality({q \in FallingLadder \ {skip} : q > p}) = i - 1}),
       low |-> Max({p \in FallingLadder \ {skip} :
                      Cardinality({q \in FallingLadder \ {skip} : q > p}) = i}),
       close |-> Max({p \in FallingLadder \ {skip} :
                        Cardinality({q \in FallingLadder \ {skip} : q > p}) = i})]] :
     skip \in FallingLadder}

\* A market that hardly moves: the bar at the listing time trades at one price,
\* the bar a day later closes two units below it.
NarrowSeries ==
  {<< [start |-> 0, high |-> 40002, low |-> 40002, close |-> 40002],
      [start |-> 24, high |-> 40000, low |-> 40000, close |-> 40000] >>}

\* bybitKlines.find(k => k.start >= t): the index of the bar, 0 when there is none.
find(ser, t) ==
  LET I == {i \in 1..Len(ser) : ser[i].start >= t}
  IN IF I = {} THEN 0 ELSE Min(I)

NullPrices == [HIGH |-> Null, MID |-> Null, LOW |-> Null]

\* Mutant: MID taken to be the highest high.
buildProfilePricesNoMid(window) ==
  IF Len(window) = 0 THEN NullPrices
  ELSE LET highs == {window[i].high : i \in 1..Len(window)} \ {NaN}
           lows == {window[i].low : i \in 1..Len(window)} \ {NaN}
       IN IF highs = {} \/ lows = {} THEN NullPrices
          ELSE [HIGH |-> Max(highs), LOW |-> Min(lows), MID |-> Max(highs)]

\* Mutant: the prices of the first bar of the window, the entry anchor.
buildProfilePricesAnchor(window) ==
  IF Len(window) = 0 THEN NullPrices
  ELSE IF window[1].high = NaN \/ window[1].low = NaN THEN NullPrices
  ELSE [HIGH |-> window[1].high, LOW |-> window[1].low,
        MID |-> (window[1].high + window[1].low) \div 2]

buildProfilePrices(window) ==
  IF Len(window) = 0 THEN NullPrices
  ELSE LET highs == {window[i].high : i \in 1..Len(window)} \ {NaN}
           lows == {window[i].low : i \in 1..Len(window)} \ {NaN}
       IN IF highs = {} \/ lows = {} THEN NullPrices
          ELSE [HIGH |-> Max(highs), LOW |-> Min(lows),
                MID |-> (Max(highs) + Min(lows)) \div 2]

\* Number((n / d * 100).toFixed(2)) in hundredths of a percent, for d > 0: the
\* nearest hundredth, the one farther from zero when two are as near.
toFixed2(n, d) ==
  IF n >= 0 THEN (2 * n * 10000 + d) \div (2 * d)
  ELSE -((2 * (-n) * 10000 + d) \div (2 * d))

\* `!price`: null, zero and NaN are falsy.
Falsy(price) == price \in {Null, 0, NaN}

\* Mutant: the return of a long position.
ProfileResultLong(base, profile, profilePrices, exitPrice) ==
  LET entryPrice == profilePrices[profile.id]
      scenarioId == ScenarioId(base, profile)
  IN IF Falsy(entryPrice) \/ ~\E i \in DOMAIN grid : grid[i].id = scenarioId
     THEN << >>
     ELSE << [scenarioId |-> scenarioId,
              date |-> base.entryHours,
              entryHours |-> base.entryHours,
              entryPrice |-> entryPrice,
              exitPrice |-> exitPrice,
              returnPct |-> toFixed2(exitPrice - entryPrice, entryPrice),
              priceProfile |-> profile.id,
              liquidated |-> ((exitPrice - entryPrice) * 100 <= (-90) * entryPrice),
              win |-> (exitPrice - entryPrice > 0)] >>

\* The body of the loop over PRICE_PROFILES for one profile: the result pushed,
\* or none.
ProfileResult(base, profile, profilePrices, exitPrice) ==
  LET entryPrice == profilePrices[profile.id]
      scenarioId == ScenarioId(base, profile)
  IN IF Falsy(entryPrice) \/ ~\E i \in DOMAIN grid : grid[i].id = scenarioId
     THEN << >>
     ELSE << [scenarioId |-> scenarioId,
              date |-> base.entryHours,
              entryHours |-> base.entryHours,
              entryPrice |-> entryPrice,
              exitPrice |-> exitPrice,
              returnPct |-> toFixed2(entryPrice - exitPrice, entryPrice),
              priceProfile |-> profile.id,
              liquidated |-> ((entryPrice - exitPrice) * 100 <= (-90) * entryPrice),
              win |-> (entryPrice - exitPrice > 0)] >>

\* bybitKlines.filter(k => k.start >= entryTime && k.start < exitTime)
evaluationWindow(ser, entryTime, exitTime) ==
  SelectSeq(ser, LAMBDA k : k.start >= entryTime /\ k.start < exitTime)

\* Mutant: the loop over the profiles runs LOW, MID, HIGH.
BaseResultsLowFirst(ser, base) ==
  LET entryTime == base.entryHours
      exitTime == entryTime + HOLD_HOURS
      entryCandle == find(ser, entryTime)
      exitCandle == find(ser, exitTime)
  IN IF entryCandle = 0 \/ exitCandle = 0 THEN << >>
     ELSE LET exitPrice == ser[exitCandle].close
              windowKlines == evaluationWindow(ser, entryTime, exitTime)
              profilePrices == buildProfilePrices(windowKlines)
          IN IF Falsy(exitPrice) \/ Len(windowKlines) = 0 THEN << >>
             ELSE ProfileResult(base, PRICE_PROFILES[3], profilePrices, exitPrice) \o
                  ProfileResult(base, PRICE_PROFILES[2], profilePrices, exitPrice) \o
                  ProfileResult(base, PRICE_PROFILES[1], profilePrices, exitPrice)

\* The body of the loop over BASE_SCENARIOS for one base scenario.
BaseResults(ser, base) ==
  LET entryTime == base.entryHours
      exitTime == entryTime + HOLD_HOURS
      entryCandle == find(ser, entryTime)
      exitCandle == find(ser, exitTime)
  IN IF entryCandle = 0 \/ exitCandle = 0 THEN << >>
     ELSE LET exitPrice == ser[exitCandle].close
              windowKlines == evaluationWindow(ser, entryTime, exitTime)
              profilePrices == buildProfilePrices(windowKlines)
          IN IF Falsy(exitPrice) \/ Len(windowKlines) = 0 THEN << >>
             ELSE ProfileResult(base, PRICE_PROFILES[1], profilePrices, exitPrice) \o
                  ProfileResult(base, PRICE_PROFILES[2], profilePrices, exitPrice) \o
                  ProfileResult(base, PRICE_PROFILES[3], profilePrices, exitPrice)

\* Mutant: the loop over the base scenarios ends at the first one it skips.
RECURSIVE ScenarioLoopBreaks(_, _)
ScenarioLoopBreaks(ser, i) ==
  IF i > Len(BASE_SCENARIOS) \/ BaseResults(ser, BASE_SCENARIOS[i]) = << >> THEN << >>
  ELSE BaseResults(ser, BASE_SCENARIOS[i]) \o ScenarioLoopBreaks(ser, i + 1)

RECURSIVE ScenarioLoop(_, _)
ScenarioLoop(ser, i) ==
  IF i > Len(BASE_SCENARIOS) THEN << >>
  ELSE BaseResults(ser, BASE_SCENARIOS[i]) \o ScenarioLoop(ser, i + 1)

\* Mutant: scenarioResults declared outside the loop over the coins.
scenarioResultsCarried(ser) ==
  (IF analyzedCoins = << >> THEN << >>
   ELSE analyzedCoins[Len(analyzedCoins)].scenarios) \o ScenarioLoop(ser, 1)

\* const scenarioResults = [] and the loops that fill it.
scenarioResults(ser) == ScenarioLoop(ser, 1)

ScenarioIds == {grid[i].id : i \in DOMAIN grid}

\* summaryMap after the results of one coin were counted in.  totalReturn, read
\* only for averageReturn, is not carried.
Tally(map, pushed) ==
  [id \in DOMAIN map |->
     LET mine == {i \in 1..Len(pushed) : pushed[i].scenarioId = id}
     IN [count |-> map[id].count + Cardinality(mine),
         wins |-> map[id].wins + Cardinality({i \in mine : pushed[i].win})]]

\* Number(((n / d) * 100).toFixed(1)) in tenths of a percent, for 0 <= n <= d
\* and d > 0.
toFixed1(n, d) == (2 * n * 1000 + d) \div (2 * d)

\* Mutant: the sample size of a scenario is the number of its wins.
summarySampleWins ==
  [i \in DOMAIN grid |->
     LET stats == summaryMap[grid[i].id]
     IN [scenarioId |-> grid[i].id,
         entryHours |-> grid[i].entryHours,
         priceProfile |-> grid[i].priceProfile,
         sampleSize |-> stats.wins,
         successRate |-> IF stats.count # 0 THEN toFixed1(stats.wins, stats.count) ELSE Null]]

\* The summary of the report: scenarios.map(...) over summaryMap.  averageReturn
\* is not carried.
summary ==
  [i \in DOMAIN grid |->
     LET stats == summaryMap[grid[i].id]
     IN [scenarioId |-> grid[i].id,
         entryHours |-> grid[i].entryHours,
         priceProfile |-> grid[i].priceProfile,
         sampleSize |-> stats.count,
         successRate |-> IF stats.count # 0 THEN toFixed1(stats.wins, stats.count) ELSE Null]]

\* The report buildListingStrategyReport returns.
Report ==
  [coinsAnalyzed |-> Len(analyzedCoins), summary |-> summary, coins |-> analyzedCoins]

\* The end of one turn of the loop over the coins, by `continue`, by the catch
\* block or after the sleep: the next coin, or the report.
Advance ==
  IF coinIdx < batch
  THEN coinIdx' = coinIdx + 1 /\ pipePc' = "daily"
  ELSE coinIdx' = coinIdx /\ pipePc' = "done"

\* fetchUpbitDailyCandles(coin): the request is handed to runWithUpbitRateLimit.
fetchUpbitDailyCandles(sc) ==
  /\ pipePc = "daily"
  /\ executes[1] = coinIdx - 1
  /\ Execute(1, sc)

\* Mutant: no catch block inside the loop, the failure of one coin ends the batch.
DailyCandlesAborts(candles) ==
  /\ pipePc = "daily"
  /\ executes[1] = coinIdx
  /\ pc[1] \in {"returned", "threw"}
  /\ IF pc[1] = "threw"
     THEN pipePc' = "done" /\ coinIdx' = coinIdx
     ELSE IF candles \in {"none", "old"}
     THEN Advance
     ELSE pipePc' = "hourly" /\ coinIdx' = coinIdx
  /\ caught' = IF pc[1] = "threw" THEN caught \cup {coinIdx} ELSE caught
  /\ UNCHANGED <<dateVars, now, limiterVars, schedVars, calVars, tickerVars, grid, batch, klines, analyzedCoins,
                 summaryMap, evaluated, hourlyFetches, cooldownAt>>

\* runWithUpbitRateLimit has settled: it threw (the catch block of the coin), or
\* it returned candles that are none, or of a listing before the cutoff, or of a
\* recent listing.
DailyCandles(candles) ==
  /\ pipePc = "daily"
  /\ executes[1] = coinIdx
  /\ pc[1] \in {"returned", "threw"}
  /\ IF pc[1] = "threw" \/ candles \in {"none", "old"}
     THEN Advance
     ELSE pipePc' = "hourly" /\ coinIdx' = coinIdx
  /\ caught' = IF pc[1] = "threw" THEN caught \cup {coinIdx} ELSE caught
  /\ UNCHANGED <<dateVars, now, limiterVars, schedVars, calVars, tickerVars, grid, batch, klines, analyzedCoins,
                 summaryMap, evaluated, hourlyFetches, cooldownAt>>

\* fetchBybitHourlyKlines(...) is called: axios.get is issued.
fetchBybitHourlyKlines ==
  /\ pipePc = "hourly"
  /\ pipePc' = "hourlyWait"
  /\ hourlyFetches' = hourlyFetches \cup {[coin |-> coinIdx, inExecute |-> InExecute(1)]}
  /\ UNCHANGED <<dateVars, now, limiterVars, schedVars, calVars, tickerVars, caught, grid, batch, coinIdx, klines, analyzedCoins,
                 summaryMap, evaluated, cooldownAt>>

\* fetchBybitHourlyKlines returns: nothing when the request failed, else the
\* bars of the asset, which are the same for every asset of the batch.  The
\* scenario loops run, and the function sleeps.
HourlyKlines(ser, fails) ==
  /\ pipePc = "hourlyWait"
  /\ fails \/ evaluated = {} \/ ser = klines
  /\ IF fails \/ Len(ser) = 0
     THEN /\ Advance
          /\ klines' = IF fails THEN klines ELSE ser
          /\ UNCHANGED <<analyzedCoins, summaryMap, evaluated, cooldownAt>>
     ELSE /\ klines' = ser
          /\ evaluated' = evaluated \cup {coinIdx}
          /\ analyzedCoins' = IF Len(scenarioResults(ser)) > 0
                              THEN Append(analyzedCoins,
                                          [coin |-> coinIdx, scenarios |-> scenarioResults(ser)])
                              ELSE analyzedCoins
          /\ summaryMap' = Tally(summaryMap, scenarioResults(ser))
          /\ pipePc' = "cooldown"
          /\ cooldownAt' = now + CooldownTicks
          /\ coinIdx' = coinIdx
  /\ UNCHANGED <<dateVars, now, limiterVars, schedVars, calVars, tickerVars, caught, grid, batch, hourlyFetches>>

\* await sleep(120) is over.
CooldownWake ==
  /\ pipePc = "cooldown"
  /\ now >= cooldownAt
  /\ Advance
  /\ UNCHANGED <<dateVars, now, limiterVars, schedVars, calVars, tickerVars, caught, grid, batch, klines, analyzedCoins,
                 summaryMap, evaluated, hourlyFetches, cooldownAt>>

\* ------------------------------- computeListingDates / fetchOldestDate
\* count: 200, the most bars one page holds.
PageSize == 2
maxAttempts == 5
\* The null listing date.
NoListing == 0
\* The day of new Date(); days are numbered so that every bar has a positive day.
Today == PageSize * maxAttempts + 2

\* Days are numbered, and an instant is a number of hours: hour 0 of day d, UTC,
\* is d * HoursPerDay.  A KST timestamp is a day and an hour of that day in KST.
HoursPerDay == 24
\* `+09:00`
KstOffsetHours == 9
NoTimestamp == [day |-> 0, hour |-> 0]

\* What base.setDate(base.getDate() - 1) can take off an instant: a day of the
\* server's time zone, one hour shorter or longer across a change of its offset.
LocalDayLengths == {HoursPerDay - 1, HoursPerDay, HoursPerDay + 1}

\* candle_date_time_kst of the daily bar of a day: the bar opens at 00:00 UTC.
DailyBarKst(day) == [day |-> day, hour |-> KstOffsetHours]

\* Mutant: the day of the bar itself.
adjustListingDateSameDay(kst) == kst.day

\* adjustListingDate: the instant of the KST timestamp, one local day taken off,
\* and the UTC date of the instant that gives (toISOString().substring(0, 10)).
adjustListingDate(kst) ==
  LET base == kst.day * HoursPerDay + kst.hour - KstOffsetHours
  IN (base - localDayHours) \div HoursPerDay

\* adjustListingDate is called and returns.
AdjustListingDate ==
  /\ listingDate = NoListing
  /\ kstTimestamp # NoTimestamp
  /\ listingDate' = adjustListingDate(kstTimestamp)
  /\ UNCHANGED <<now, limiterVars, schedVars, pipeVars, calVars, tickerVars, kstTimestamp,
                 localDayHours>>

\* months: 6, on the scale of the days of the bars.
RecentDays == 2
\* The day of sixMonthsAgo.
sixMonthsAgo == Today - RecentDays

\* What the scheduler serves or a tier holds when nothing was computed or saved,
\* and what an earlier run left.
NoCalendar == [entries |-> << >>, recentCount |-> 0, lastUpdated |-> NoDate]
PrevCalendar ==
  [entries |-> << [coin |-> 1, listingDate |-> Today - 1, isRecent |-> TRUE] >>,
   recentCount |-> 1, lastUpdated |-> 0]

\* Mutant: the entries are left in the order of the catalog.
sortByListingDateNone(entries) == entries

\* entries.sort((a, b) => b.listingDate.localeCompare(a.listingDate)): latest
\* first, entries of one date in the order they had.
RECURSIVE sortByListingDate(_)
sortByListingDate(entries) ==
  IF entries = << >> THEN << >>
  ELSE LET rest == sortByListingDate(SubSeq(entries, 1, Len(entries) - 1))
           e == entries[Len(entries)]
           k == Cardinality({i \in DOMAIN rest : rest[i].listingDate >= e.listingDate})
       IN SubSeq(rest, 1, k) \o << e >> \o SubSeq(rest, k + 1, Len(rest))

\* Mutant: the loop goes on while attempts are left.
LoopContinuesAttemptsOnly(att, od) == att < maxAttempts

\* while (attempts < maxAttempts && !oldestDate)
LoopContinues(att, od) == att < maxAttempts /\ od = NoListing

NoDiscovery == [pages |-> << >>, returned |-> NoListing, ended |-> "no"]

\* The end of one turn of the loop over the coins: the next coin with a new
\* fetchOldestDate call, or the results.
CalAdvance ==
  /\ IF calIdx < calBatch
     THEN calIdx' = calIdx + 1 /\ calPc' = "fetch"
     ELSE calIdx' = calIdx /\ calPc' = "done"
  /\ currentDate' = Today + 1
  /\ attempts' = 0
  /\ oldestDate' = NoListing

\* The page request of fetchOldestDate is handed to runWithUpbitRateLimit.
CandlesRequest(sc) ==
  /\ calPc = "fetch"
  /\ executes[1] = responses
  /\ LoopContinues(attempts, oldestDate)
  /\ Execute(1, sc)

\* Mutant: an empty page gives a date too.
PageDateAlways(od, cursor, len) == adjustListingDate(DailyBarKst(cursor - len))

\* oldestDate after a page of len bars, the newest of them the day before the cursor.
PageDate(od, cursor, len) ==
  IF len > 0 THEN adjustListingDate(DailyBarKst(cursor - len)) ELSE od

\* runWithUpbitRateLimit has settled.  It threw: the catch block of the coin.
\* It returned a page of len bars: the rest of the loop body, the loop
\* condition, and, when the loop is left, the return to computeListingDates,
\* which skips the coin or pushes its entry and sleeps.
CandlesResponse(len) ==
  /\ calPc = "fetch"
  /\ executes[1] = responses + 1
  /\ pc[1] \in {"returned", "threw"}
  /\ currentDate - len >= 1
  /\ responses' = responses + 1
  /\ IF pc[1] = "threw"
     THEN /\ CalAdvance
          /\ discoveryLog' = [discoveryLog EXCEPT ![calIdx].ended = "threw"]
          /\ UNCHANGED <<results, calCooldownAt>>
     ELSE LET oldestCandle == currentDate - len
              od == PageDate(oldestDate, currentDate, len)
              full == len > 0 /\ len = PageSize
              att == IF full THEN attempts + 1 ELSE attempts
              page == [len |-> len, oldest |-> IF len > 0 THEN oldestCandle ELSE NoListing]
          IN IF full /\ LoopContinues(att, od)
             THEN /\ currentDate' = oldestCandle - 1
                  /\ attempts' = att
                  /\ oldestDate' = od
                  /\ discoveryLog' = [discoveryLog EXCEPT ![calIdx].pages = Append(@, page)]
                  /\ UNCHANGED <<calPc, calIdx, results, calCooldownAt>>
             ELSE /\ discoveryLog' = [discoveryLog EXCEPT ![calIdx] =
                                        [pages |-> Append(@.pages, page), returned |-> od,
                                         ended |-> "returned"]]
                  /\ IF od = NoListing
                     THEN /\ CalAdvance
                          /\ UNCHANGED <<results, calCooldownAt>>
                     ELSE /\ results' = Append(results, [coin |-> calIdx, listingDate |-> od,
                                                      isRecent |-> od > sixMonthsAgo])
                          /\ calPc' = "cooldown"
                          /\ calCooldownAt' = now + CooldownTicks
                          /\ currentDate' = Today + 1
                          /\ attempts' = 0
                          /\ oldestDate' = NoListing
                          /\ UNCHANGED calIdx
  /\ UNCHANGED <<dateVars, now, limiterVars, schedVars, pipeVars, tickerVars, calBatch, calServed, calTiers>>

\* await sleep(100) is over.
CalCooldownWake ==
  /\ calPc = "cooldown"
  /\ now >= calCooldownAt
  /\ CalAdvance
  /\ UNCHANGED <<dateVars, now, limiterVars, schedVars, pipeVars, tickerVars, calBatch, calServed, calTiers, responses, results,
                 discoveryLog, calCooldownAt>>

\* computeListingDates has returned to runAnalysis(): the entries are sorted and
\* stored, recentCount and lastUpdated set, and saveToDisk() goes as far as its
\* first await.
RunAnalysisServes ==
  /\ calPc = "done"
  /\ calServed' = [entries |-> sortByListingDate(results),
                   recentCount |-> Cardinality({i \in DOMAIN results : results[i].isRecent}),
                   lastUpdated |-> now]
  /\ calPc' = "saveDisk"
  /\ UNCHANGED <<dateVars, now, limiterVars, schedVars, pipeVars, tickerVars, calBatch, calIdx,
                 currentDate, attempts, oldestDate, responses, results, discoveryLog,
                 calCooldownAt, calTiers>>

\* saveToDisk() settles, written or failed and logged; saveToRedis() is called.
CalDiskSaved(fails) ==
  /\ calPc = "saveDisk"
  /\ calTiers' = IF fails THEN calTiers ELSE [calTiers EXCEPT !.disk = calServed]
  /\ calPc' = "saveRedis"
  /\ UNCHANGED <<dateVars, now, limiterVars, schedVars, pipeVars, tickerVars, calBatch, calIdx,
                 currentDate, attempts, oldestDate, responses, results, discoveryLog,
                 calCooldownAt, calServed>>

\* saveToRedis() settles, written or failed and logged; the run is over.
CalRedisSaved(fails) ==
  /\ calPc = "saveRedis"
  /\ calTiers' = IF fails THEN calTiers ELSE [calTiers EXCEPT !.redis = calServed]
  /\ calPc' = "served"
  /\ UNCHANGED <<dateVars, now, limiterVars, schedVars, pipeVars, tickerVars, calBatch, calIdx,
                 currentDate, attempts, oldestDate, responses, results, discoveryLog,
                 calCooldownAt, calServed>>

\* ------------------------------------------ ticker cache, GET /api/ticker
\* TICKER_TTL_MS, in clock ticks.
TtlTicks == 2
MaxRestarts == 1

Requests == 1..NumCallers
\* The cache keys requests come with.
CacheKeys == {"KRW-BTC", "KRW-BTC,KRW-ETH"}

\* No entry under a key; a payload is named by the time upstream gave it.
NoEntry == [present |-> FALSE, data |-> 0, fetchedAt |-> 0]
NoResponse == [source |-> "none", key |-> "", data |-> 0, at |-> 0]

\* Mutant: an entry never expires.
ExpiredNever(entry) == FALSE

\* Date.now() - entry.fetchedAt > TICKER_TTL_MS
Expired(entry) == now - entry.fetchedAt > TtlTicks

\* getCachedTicker(key): the entry served, NoEntry for null.
getCachedTicker(key) ==
  IF ~tickerCache[key].present \/ Expired(tickerCache[key]) THEN NoEntry
  ELSE tickerCache[key]

\* A request arrives: the route handler up to its response from the cache, or,
\* the entry missing or deleted as expired, up to the await of fetchUpbitTicker.
TickerRequest(q, key) ==
  /\ reqPc[q] = "idle"
  /\ reqKey' = [reqKey EXCEPT ![q] = key]
  /\ IF getCachedTicker(key).present
     THEN /\ served' = [source |-> "cache", key |-> key,
                        data |-> getCachedTicker(key).data, at |-> now]
          /\ UNCHANGED <<tickerCache, reqPc>>
     ELSE /\ tickerCache' = [tickerCache EXCEPT ![key] = NoEntry]
          /\ reqPc' = [reqPc EXCEPT ![q] = "fetching"]
          /\ served' = NoResponse
  /\ UNCHANGED <<dateVars, now, limiterVars, schedVars, pipeVars, calVars, tickerFile, reqData, restarts>>

\* fetchUpbitTicker settles: it throws (response 500), or the payload is stored
\* by setCachedTicker and persistTickerCache is awaited.
TickerFetched(q, fails) ==
  /\ reqPc[q] = "fetching"
  /\ IF fails
     THEN /\ reqPc' = [reqPc EXCEPT ![q] = "idle"]
          /\ served' = [source |-> "error", key |-> reqKey[q], data |-> 0, at |-> now]
          /\ UNCHANGED <<tickerCache, reqData>>
     ELSE /\ tickerCache' = [tickerCache EXCEPT ![reqKey[q]] =
                               [present |-> TRUE, data |-> now, fetchedAt |-> now]]
          /\ reqData' = [reqData EXCEPT ![q] = now]
          /\ reqPc' = [reqPc EXCEPT ![q] = "persisting"]
          /\ served' = NoResponse
  /\ UNCHANGED <<dateVars, now, limiterVars, schedVars, pipeVars, calVars, tickerFile, reqKey, restarts>>

\* persistTickerCache settles, the file written with the cache as it is or, the
\* write failing, left as it was; the fetched payload is sent.
TickerPersisted(q, fails) ==
  /\ reqPc[q] = "persisting"
  /\ tickerFile' = IF fails THEN tickerFile ELSE tickerCache
  /\ reqPc' = [reqPc EXCEPT ![q] = "idle"]
  /\ reqData' = [reqData EXCEPT ![q] = 0]
  /\ served' = [source |-> "upstream", key |-> reqKey[q], data |-> reqData[q], at |-> now]
  /\ UNCHANGED <<dateVars, now, limiterVars, schedVars, pipeVars, calVars, tickerCache, reqKey, restarts>>

\* The process is restarted: the requests in flight are lost, and
\* loadTickerCacheFromDisk assigns the entries of the file, if it can be read,
\* to the empty cache, before the server listens.
Restart(fails) ==
  /\ restarts < MaxRestarts
  /\ restarts' = restarts + 1
  /\ tickerCache' = IF fails THEN [k \in CacheKeys |-> NoEntry] ELSE tickerFile
  /\ reqPc' = [q \in Requests |-> "idle"]
  /\ reqData' = [q \in Requests |-> 0]
  /\ served' = NoResponse
  /\ UNCHANGED <<dateVars, now, limiterVars, schedVars, pipeVars, calVars, tickerFile, reqKey>>

\* Wall-clock time passes.
Tick ==
  /\ now < MaxTime
  /\ Quiet
  /\ now' = now + 1
  /\ snapshot' = NoRead
  /\ UNCHANGED <<dateVars, limiterVars, schedCore, pipeVars, calVars, tickerVars>>

InitLimiterState ==
  /\ now = 1
  /\ lastCallTimestamp = 0
  /\ script = [c \in Callers |-> NoScript]
  /\ attempt = [c \in Callers |-> 0]
  /\ calls = [c \in Callers |-> 0]
  /\ backoffs = [c \in Callers |-> 0]
  /\ wakeAt = [c \in Callers |-> 0]
  /\ outcome = [c \in Callers |-> NoOutcome]
  /\ issuedAt = [c \in Callers |-> 0]
  /\ executes = [c \in Callers |-> 0]
  /\ nAttempts = 0
  /\ prevAttemptAt = 0
  /\ lastAttemptAt = 0
  /\ overlapped = FALSE

\* A scheduler as its field initialisers leave it.
InitSchedState ==
  /\ status = "idle"
  /\ report = NoData
  /\ lastUpdated = NoDate
  /\ nextRunAt = NoDate
  /\ lastError = NoError
  /\ timer = NoTimer
  /\ leaked = [t \in 1..(MaxTime + IntervalTicks) |-> 0]
  /\ startPc = [s \in Starts |-> "new"]
  /\ startLog = [s \in Starts |-> NoLog]
  /\ runs = [r \in Runs |-> NoRun]
  /\ runSeq = 0
  /\ lastTrigger = "none"
  /\ everStopped = FALSE
  /\ stopped = FALSE
  /\ anySuccess = FALSE
  /\ snapshot = NoRead

\* buildListingStrategyReport is not running.
InitPipeState ==
  /\ grid = LISTING_SCENARIOS
  /\ klines = << >>
  /\ analyzedCoins = << >>
  /\ summaryMap = [id \in ScenarioIds |-> [count |-> 0, wins |-> 0]]
  /\ evaluated = {}
  /\ caught = {}
  /\ hourlyFetches = {}
  /\ cooldownAt = 0

InitPipeOff ==
  /\ InitPipeState
  /\ batch = 0
  /\ pipePc = "off"
  /\ coinIdx = 0

\* computeListingDates is not running.
InitCalState ==
  /\ currentDate = Today + 1
  /\ attempts = 0
  /\ oldestDate = NoListing
  /\ responses = 0
  /\ results = << >>
  /\ discoveryLog = [c \in 1..MaxBatch |-> NoDiscovery]
  /\ calCooldownAt = 0

\* The calendar scheduler holds nothing and the tiers are empty.
InitCalServedOff ==
  /\ calServed = NoCalendar
  /\ calTiers = [disk |-> NoCalendar, redis |-> NoCalendar]

\* adjustListingDate is not called by itself; the server's days have 24 hours.
InitDatesOff ==
  /\ kstTimestamp = NoTimestamp
  /\ localDayHours = HoursPerDay
  /\ listingDate = NoListing

InitCalOff ==
  /\ InitCalState
  /\ InitCalServedOff
  /\ calPc = "off"
  /\ calBatch = 0
  /\ calIdx = 0

\* No request has been made.
InitTickerState ==
  /\ reqKey = [q \in Requests |-> ""]
  /\ reqData = [q \in Requests |-> 0]
  /\ served = NoResponse
  /\ restarts = 0

\* The server is not listening.
InitTickerOff ==
  /\ InitTickerState
  /\ tickerCache = [k \in CacheKeys |-> NoEntry]
  /\ tickerFile = [k \in CacheKeys |-> NoEntry]
  /\ reqPc = [q \in Requests |-> "off"]

\* No scheduler is started.
InitSchedOff ==
  /\ InitSchedState
  /\ kind = "strategy"
  /\ supportedCoins = 0
  /\ persistPath = FALSE
  /\ redisClient = FALSE
  /\ diskTier = NoSnapshot
  /\ redisTier = NoSnapshot

\* A limiter built with any options, used by one caller that issues its execute
\* calls one after another.
Init ==
  /\ InitSchedOff
  /\ InitPipeOff
  /\ InitCalOff
  /\ InitLimiterState
  /\ InitDatesOff
  /\ InitTickerOff
  /\ minIntervalMs \in 1..MaxInterval
  /\ maxRetries \in 0..MaxRetriesCfg
  /\ retryBackoffMs \in 1..MaxBackoff
  /\ operations = Scripts
  /\ pc = [c \in Callers |-> IF c = 1 THEN "idle" ELSE "off"]

\* defaultLimiter behind runWithUpbitRateLimit, shared by the pipelines of the
\* two schedulers and the data manager, whose runs are in flight together.
InitShared ==
  /\ InitSchedOff
  /\ InitPipeOff
  /\ InitCalOff
  /\ InitLimiterState
  /\ InitDatesOff
  /\ InitTickerOff
  /\ minIntervalMs = MaxInterval
  /\ maxRetries = 1
  /\ retryBackoffMs = 1
  /\ operations = {sc \in Scripts : sc.fails <= 1 /\ sc.final = Ok}
  /\ pc = [c \in Callers |-> "idle"]

Next ==
  \/ Tick
  \/ \E c \in Callers, sc \in operations : Execute(c, sc)
  \/ \E c \in Callers : ThrottleWake(c)
  \/ \E c \in Callers : OpResolve(c)
  \/ \E c \in Callers : OpReject(c)
  \/ \E c \in Callers : BackoffWake(c)

Spec == Init /\ [][Next]_vars

SpecShared == InitShared /\ [][Next]_vars

\* One scheduler of either class, with its catalog fixed by
\* DataManager.initialize() before it is built, and tiers that are empty or hold
\* what an earlier process wrote.
InitSched ==
  /\ InitSchedState
  /\ InitPipeOff
  /\ InitCalOff
  /\ InitLimiterState
  /\ InitDatesOff
  /\ InitTickerOff
  /\ minIntervalMs = 1
  /\ maxRetries = 0
  /\ retryBackoffMs = 1
  /\ operations = {}
  /\ pc = [c \in Callers |-> "off"]
  /\ kind \in {"strategy", "calendar"}
  /\ supportedCoins \in 0..MaxCoins
  /\ persistPath \in BOOLEAN
  /\ redisClient \in BOOLEAN
  /\ diskTier \in IF persistPath THEN {NoSnapshot, PrevSnapshot} ELSE {NoSnapshot}
  /\ redisTier \in IF redisClient THEN {NoSnapshot, PrevSnapshot} ELSE {NoSnapshot}

NextSched ==
  \/ Tick
  \/ \E s \in Starts : Start(s)
  \/ \E s \in Starts, fails \in BOOLEAN : RedisGot(s, fails)
  \/ \E s \in Starts, fails \in BOOLEAN : DiskGot(s, fails)
  \/ \E s \in Starts : StartTrigger(s)
  \/ TimerFire
  \/ \E t \in 1..MaxTime : LeakedTimerFire(t)
  \/ Stop
  \/ \E r \in Runs : ComputeOk(r)
  \/ \E r \in Runs, e \in ComputeErrors : ComputeFail(r, e)
  \/ \E r \in Runs, fails \in BOOLEAN : DiskSaved(r, fails)
  \/ \E r \in Runs, fails \in BOOLEAN : RedisSaved(r, fails)

SpecSched == InitSched /\ [][NextSched]_vars

\* One scheduler with both tiers and a catalog, and the readers of its snapshot.
InitSnapshot ==
  /\ InitSched
  /\ persistPath /\ redisClient
  /\ supportedCoins = MaxCoins
  /\ diskTier = NoSnapshot /\ redisTier = NoSnapshot

NextSnapshot == NextSched \/ GetSnapshot

SpecSnapshot == InitSnapshot /\ [][NextSnapshot]_vars

\* buildListingStrategyReport called with a batch of coins, its daily fetches
\* going through defaultLimiter.
InitPipeline ==
  /\ InitSchedOff
  /\ InitCalOff
  /\ InitLimiterState
  /\ InitDatesOff
  /\ InitTickerOff
  /\ InitPipeState
  /\ minIntervalMs = 1
  /\ maxRetries = 1
  /\ retryBackoffMs = 1
  /\ operations = {sc \in Scripts : (sc.fails <= 1 /\ sc.final = Ok)
                                       \/ (sc.fails = 0 /\ sc.final = ErrPlain)}
  /\ pc = [c \in Callers |-> IF c = 1 THEN "idle" ELSE "off"]
  /\ batch \in 1..MaxBatch
  /\ pipePc = "daily"
  /\ coinIdx = 1

NextPipeline ==
  \/ Tick
  \/ \E sc \in operations : fetchUpbitDailyCandles(sc)
  \/ ThrottleWake(1)
  \/ OpResolve(1)
  \/ OpReject(1)
  \/ BackoffWake(1)
  \/ \E candles \in {"none", "old", "recent"} : DailyCandles(candles)
  \/ fetchBybitHourlyKlines
  \/ \E ser \in (IF evaluated = {} THEN Series \cup FallingSeries \cup NarrowSeries
                                      ELSE {klines}),
       fails \in BOOLEAN :
       HourlyKlines(ser, fails)
  \/ CooldownWake

SpecPipeline == InitPipeline /\ [][NextPipeline]_vars

\* The requests a pipeline hands to defaultLimiter: answered at once or after one
\* 429, failing with another error, or answered with 429 until the retries are spent.
PipelineOperations ==
  {sc \in Scripts : \/ sc.fails <= 1 /\ sc.final = Ok
                    \/ sc.fails = 0 /\ sc.final = ErrPlain
                    \/ sc.fails = 2 /\ sc.final = Ok}

\* computeListingDates called with a batch of coins, its page requests going
\* through defaultLimiter.
InitCalendar ==
  /\ InitSchedOff
  /\ InitPipeOff
  /\ InitLimiterState
  /\ InitDatesOff
  /\ InitTickerOff
  /\ InitCalState
  /\ minIntervalMs = 1
  /\ maxRetries = 1
  /\ retryBackoffMs = 1
  /\ operations = PipelineOperations
  /\ pc = [c \in Callers |-> IF c = 1 THEN "idle" ELSE "off"]
  /\ calBatch \in 1..MaxBatch
  /\ calPc = "fetch"
  /\ calIdx = 1
  /\ calTiers \in {[disk |-> c, redis |-> c] : c \in {NoCalendar, PrevCalendar}}
  /\ calServed = calTiers.redis

NextCalendar ==
  \/ Tick
  \/ \E sc \in operations : CandlesRequest(sc)
  \/ ThrottleWake(1)
  \/ OpResolve(1)
  \/ OpReject(1)
  \/ BackoffWake(1)
  \/ \E len \in 0..PageSize : CandlesResponse(len)
  \/ CalCooldownWake
  \/ RunAnalysisServes
  \/ \E fails \in BOOLEAN : CalDiskSaved(fails)
  \/ \E fails \in BOOLEAN : CalRedisSaved(fails)

SpecCalendar == InitCalendar /\ [][NextCalendar]_vars

\* adjustListingDate called with the timestamp of a bar, on a server of any time zone.
BarDays == {Today - 1, Today}
InitDates ==
  /\ InitSchedOff
  /\ InitPipeOff
  /\ InitCalOff
  /\ InitLimiterState
  /\ InitTickerOff
  /\ minIntervalMs = 1
  /\ maxRetries = 0
  /\ retryBackoffMs = 1
  /\ operations = {}
  /\ pc = [c \in Callers |-> "off"]
  /\ kstTimestamp \in [day : BarDays, hour : 0..(HoursPerDay - 1)]
  /\ localDayHours \in LocalDayLengths
  /\ listingDate = NoListing

NextDates == AdjustListingDate

SpecDates == InitDates /\ [][NextDates]_vars

\* Either pipeline, called with a batch of coins whose requests may fail; the
\* assets of the strategy pipeline have bars of a falling market, or none.
InitEither ==
  /\ InitSchedOff
  /\ InitLimiterState
  /\ InitDatesOff
  /\ InitTickerOff
  /\ minIntervalMs = 1
  /\ maxRetries = 1
  /\ retryBackoffMs = 1
  /\ operations = PipelineOperations
  /\ pc = [c \in Callers |-> IF c = 1 THEN "idle" ELSE "off"]
  /\ \/ /\ InitPipeOff
        /\ InitCalState
        /\ InitCalServedOff
        /\ calBatch \in 1..MaxBatch
        /\ calPc = "fetch"
        /\ calIdx = 1
     \/ /\ InitCalOff
        /\ InitPipeState
        /\ batch \in 1..MaxBatch
        /\ pipePc = "daily"
        /\ coinIdx = 1

NextEither ==
  \/ Tick
  \/ \E sc \in operations : fetchUpbitDailyCandles(sc)
  \/ \E sc \in operations : CandlesRequest(sc)
  \/ ThrottleWake(1)
  \/ OpResolve(1)
  \/ OpReject(1)
  \/ BackoffWake(1)
  \/ \E candles \in {"none", "old", "recent"} : DailyCandles(candles)
  \/ fetchBybitHourlyKlines
  \/ \E ser \in (IF evaluated = {} THEN FallingSeries \cup {<< >>} ELSE {klines}),
       fails \in BOOLEAN :
       HourlyKlines(ser, fails)
  \/ CooldownWake
  \/ \E len \in 0..PageSize : CandlesResponse(len)
  \/ CalCooldownWake

SpecEither == InitEither /\ [][NextEither]_vars

\* The server listening, its cache loaded from a file that an earlier process
\* left with no entry or with an entry fetched before the start.
InitTicker ==
  /\ InitSchedOff
  /\ InitPipeOff
  /\ InitCalOff
  /\ InitLimiterState
  /\ InitDatesOff
  /\ InitTickerState
  /\ minIntervalMs = 1
  /\ maxRetries = 0
  /\ retryBackoffMs = 1
  /\ operations = {}
  /\ pc = [c \in Callers |-> "off"]
  /\ reqPc = [q \in Requests |-> "idle"]
  /\ tickerFile \in [CacheKeys -> {NoEntry, [present |-> TRUE, data |-> 0, fetchedAt |-> 0]}]
  /\ tickerCache = tickerFile

NextTicker ==
  \/ Tick
  \/ \E q \in Requests, key \in CacheKeys : TickerRequest(q, key)
  \/ \E q \in Requests, fails \in BOOLEAN : TickerFetched(q, fails)
  \/ \E q \in Requests, fails \in BOOLEAN : TickerPersisted(q, fails)
  \/ \E fails \in BOOLEAN : Restart(fails)

SpecTicker == InitTicker /\ [][NextTicker]_vars

\* ------------------------------------------------------------------ claims
RateLimitErrors == {ErrResp429, ErrStatus429}
NonRateLimitErrors == {ErrResp500, ErrPlain, ErrNonObject}

\* C1: with execute calls issued one after another, every operation attempt starts
\* at least minIntervalMs after the start of the previous attempt, and nothing
\* sleeps in throttle() before the very first attempt.
C1_SequentialPacing ==
  /\ (~overlapped /\ nAttempts = 2) => lastAttemptAt - prevAttemptAt >= minIntervalMs
  /\ nAttempts = 0 => \A c \in Callers : pc[c] # "throttleSleep"

\* A second execute, issued after the first returned, was held back by throttle()
\* and its operation started exactly minIntervalMs after the first one.
C1_Witness ==
  /\ ~overlapped /\ nAttempts = 2 /\ executes[1] = 2 /\ calls[1] = 1 /\ pc[1] = "inFn"
  /\ minIntervalMs = 2
  /\ issuedAt[1] < lastAttemptAt
  /\ lastAttemptAt - prevAttemptAt = minIntervalMs

\* C2: any two operation attempts started through the shared default limiter are
\* at least minIntervalMs apart, also when two callers are inside execute at once.
C2_SharedPacing ==
  nAttempts = 2 => lastAttemptAt - prevAttemptAt >= minIntervalMs

\* C3: an operation rejected with 429 on its first k <= maxRetries attempts and
\* resolving afterwards is attempted exactly k+1 times and execute returns the
\* value of attempt k+1.
C3_RetryThenSucceed ==
  \A c \in Callers :
    (executes[c] > 0 /\ script[c].final = Ok /\ script[c].fails <= maxRetries) =>
      /\ pc[c] # "threw"
      /\ calls[c] <= script[c].fails + 1
      /\ pc[c] = "returned" =>
           /\ calls[c] = script[c].fails + 1
           /\ outcome[c] = [kind |-> "value", ofCall |-> script[c].fails + 1]

\* Two 429 rejections, then success, with maxRetries = 2: three attempts.
C3_Witness ==
  /\ pc[1] = "returned" /\ maxRetries = 2 /\ script[1].fails = 2 /\ calls[1] = 3
  /\ outcome[1].kind = "value"

\* C4: when an attempt fails with an error that is not a 429 rejection, execute
\* throws that same error in the same step: no backoff sleep, no further attempt,
\* however many retries remain.
C4_NonRetryablePropagates ==
  [][\A c \in Callers :
       (pc[c] = "inFn" /\ pc'[c] # "inFn"
          /\ OpOutcome(script[c], calls[c]) \in NonRateLimitErrors) =>
         /\ pc'[c] = "threw"
         /\ outcome'[c] = [kind |-> "error", error |-> OpOutcome(script[c], calls[c]),
                           ofCall |-> calls[c]]
         /\ calls'[c] = calls[c]
         /\ backoffs'[c] = backoffs[c]
         /\ now' = now]_vars

\* A non-429 error on the second attempt, thrown with a retry still available.
C4_Witness ==
  /\ pc[1] = "threw" /\ maxRetries = 2 /\ attempt[1] = 2 /\ calls[1] = 2
  /\ backoffs[1] = 1
  /\ outcome[1].kind = "error" /\ outcome[1].error = ErrResp500

AllRejected429(sc) == sc.fails > maxRetries \/ sc.final \in RateLimitErrors

\* C5: execute never attempts an operation more than maxRetries + 1 times and is
\* over once attempt maxRetries + 1 settles; an operation rejected with 429 on
\* every attempt makes it throw the error of attempt maxRetries + 1 after
\* maxRetries backoffs; with maxRetries = 0 there is exactly one attempt.
C5_BoundedRetries ==
  \A c \in Callers :
    executes[c] > 0 =>
      /\ calls[c] <= maxRetries + 1
      /\ pc[c] \in {"backoff", "throttleSleep"} => calls[c] <= maxRetries
      /\ pc[c] \in {"returned", "threw"} => calls[c] >= 1
      /\ (AllRejected429(script[c]) /\ pc[c] \in {"returned", "threw"}) =>
           /\ pc[c] = "threw"
           /\ calls[c] = maxRetries + 1
           /\ backoffs[c] = maxRetries
           /\ outcome[c] = [kind |-> "error",
                            error |-> OpOutcome(script[c], maxRetries + 1),
                            ofCall |-> maxRetries + 1]

\* Three 429 rejections with maxRetries = 2: the third error is thrown.
C5_Witness ==
  /\ pc[1] = "threw" /\ maxRetries = 2 /\ script[1].fails = 3 /\ calls[1] = 3
  /\ outcome[1].kind = "error" /\ outcome[1].error = ErrResp429

\* C6: as long as stop() has not been called, however many times start() was, at
\* most one runAnalysis is past its guards and not yet over.
C6_NoOverlapWithoutStop == ~everStopped => Cardinality(InFlight) <= 1

\* Two start() calls are through, the run of one is in flight and a trigger
\* that came during it was dropped.
C6_Witness ==
  /\ ~everStopped /\ startPc[1] = "done" /\ startPc[2] = "done"
  /\ Cardinality(InFlight) = 1 /\ lastTrigger = "dropped"

\* C7: under any sequence of start(), stop() and timer firings at most one run of
\* the compute pipeline is in flight.
C7_AtMostOneRun == Cardinality(Computing) <= 1

StartHit(s) == startLog[s].redis = "hit" \/ startLog[s].disk = "hit"

\* C10: a start() reads the disk snapshot only after the remote tier yielded
\* nothing, reaches its triggerRun only after the tiers were consulted in that
\* order, and until a run has completed its compute the scheduler serves what
\* the warm loads found: the persisted snapshot, or nothing.
C10_WarmOrder ==
  /\ \A s \in Starts :
       /\ startLog[s].disk \in {"nothing", "hit"} => startLog[s].redis \in {"absent", "nothing"}
       /\ startPc[s] \in {"trigger", "done"} =>
            /\ startLog[s].redis # "untried"
            /\ startLog[s].redis = "hit" \/ startLog[s].disk # "untried"
       /\ startPc[s] = "done" => startLog[s].triggered
  /\ ~anySuccess =>
       /\ getSnapshot.report = IF \E s \in Starts : StartHit(s) THEN PrevData ELSE NoData
       /\ (\A s \in Starts : ~StartHit(s)) => getSnapshot.lastUpdated = NoDate

\* The remote tier yielded nothing, the disk snapshot was loaded, and the run
\* start() triggered is computing while the snapshot serves the loaded data.
C10_Witness ==
  /\ startPc[1] = "done" /\ startLog[1].redis = "nothing" /\ startLog[1].disk = "hit"
  /\ Computing # {} /\ ~anySuccess
  /\ getSnapshot.report = PrevData /\ getSnapshot.status = "running"

\* Pending timers of the scheduler: the one this.timer holds and those whose
\* handle was overwritten.
RECURSIVE SumLeaked(_)
SumLeaked(t) == IF t = 0 THEN 0 ELSE leaked[t] + SumLeaked(t - 1)

PendingTimers == (IF timer.pending THEN 1 ELSE 0) + SumLeaked(MaxTime + IntervalTicks)

\* C11: in every reachable state a scheduler has at most one pending timer, and
\* nextRunAt is the fire time of that timer.
C11_OneTimer ==
  /\ PendingTimers <= 1
  /\ PendingTimers = 1 => timer.pending /\ nextRunAt = timer.at

\* C12: once stop() has returned, and until start() is called again, no timer
\* fires a triggerRun and no run starts.
C12_StopHalts ==
  [][(stopped /\ startPc' = startPc) => (lastTrigger' = "none" /\ runSeq' = runSeq)]_vars

\* C13: a snapshot carries an error only when its status is error.
C13_ErrorOnlyInError == getSnapshot.status # "error" => getSnapshot.error = NoError

\* The steps that end run r with its compute having succeeded.
Succeeds(r) ==
  /\ runs[r].pc \in {"computing", "saveDisk", "saveRedis"}
  /\ runs'[r].pc = "done"

StatusTransitions ==
  {<<"idle", "running">>, <<"running", "idle">>, <<"running", "error">>, <<"error", "running">>}

\* C15: status changes only idle -> running, running -> idle, running -> error
\* and error -> running.
C15_StatusMachine == [][status' # status => <<status, status'>> \in StatusTransitions]_vars

\* C16: every series fetch of the pipeline is issued from inside execute.  The
\* daily fetch is the function handed to execute; each hourly fetch is logged
\* with whether execute was running when it was issued.
C16_FetchesThroughExecutor == \A f \in hourlyFetches : f.inExecute

BaseIds == {BASE_SCENARIOS[i].id : i \in DOMAIN BASE_SCENARIOS}
BaseOffsets == {BASE_SCENARIOS[i].entryHours : i \in DOMAIN BASE_SCENARIOS}
ProfileIds == {PRICE_PROFILES[i].id : i \in DOMAIN PRICE_PROFILES}

\* C17: the grid is the 15 definitions of the cross product of the offsets
\* {0, 12, 24, 72, 120} and the profiles {HIGH, MID, LOW}, each with the id
\* baseId_profileId, all ids different, and no step of a run changes it.
C17_ScenarioGrid ==
  /\ Len(grid) = 15
  /\ grid = LISTING_SCENARIOS
  /\ BaseOffsets = {0, 12, 24, 72, 120}
  /\ ProfileIds = {"HIGH", "MID", "LOW"}
  /\ {<<grid[i].entryHours, grid[i].priceProfile>> : i \in DOMAIN grid} = BaseOffsets \X ProfileIds
  /\ \A i \in DOMAIN grid :
       \E b \in DOMAIN BASE_SCENARIOS :
         /\ grid[i].entryHours = BASE_SCENARIOS[b].entryHours
         /\ grid[i].id = BASE_SCENARIOS[b].id \o "_" \o grid[i].priceProfile
  /\ \A i, j \in DOMAIN grid : grid[i].id = grid[j].id => i = j

\* A report has been built from assets that produced results.
C17_Witness == pipePc = "done" /\ Len(analyzedCoins) = MaxBatch /\ Len(grid) = 15

AllResults ==
  UNION {{analyzedCoins[a].scenarios[i] : i \in DOMAIN analyzedCoins[a].scenarios} :
           a \in DOMAIN analyzedCoins}

\* C18: every result's returnPct is (entryPrice - exitPrice) / entryPrice * 100
\* rounded to 2 decimals, and its liquidated flag is true exactly when that
\* returnPct is <= -90.
C18_ReturnAndLiquidation ==
  \A r \in AllResults :
    /\ r.returnPct = toFixed2(r.entryPrice - r.exitPrice, r.entryPrice)
    /\ r.liquidated <=> (r.returnPct <= -9000)

FiniteHighs(w) == {w[i].high : i \in 1..Len(w)} \ {NaN}
FiniteLows(w) == {w[i].low : i \in 1..Len(w)} \ {NaN}

EntryPrices(r, profile) ==
  {q.entryPrice : q \in {q \in AllResults : q.entryHours = r.entryHours
                                             /\ q.priceProfile = profile}}

ResultsOf(c) ==
  LET I == {a \in DOMAIN analyzedCoins : analyzedCoins[a].coin = c}
  IN IF I = {} THEN << >> ELSE analyzedCoins[CHOOSE a \in I : TRUE].scenarios

OffsetResults(c, h, profile) ==
  {ResultsOf(c)[i] : i \in {i \in DOMAIN ResultsOf(c) :
                              /\ ResultsOf(c)[i].entryHours = h
                              /\ ResultsOf(c)[i].priceProfile = profile}}

\* C21: an asset whose bars, from the one before the listing time on, have
\* strictly falling positive prices has exactly one offset-0 result for each of
\* HIGH, MID and LOW, each with returnPct >= 0, and its HIGH return is >= its
\* LOW return.
C21_FallingMarket ==
  klines \in FallingSeries =>
    \A c \in evaluated :
      /\ \A profile \in ProfileIds :
           /\ Cardinality(OffsetResults(c, 0, profile)) = 1
           /\ \A r \in OffsetResults(c, 0, profile) : r.returnPct >= 0 /\ r.exitPrice > 0
      /\ \A h \in OffsetResults(c, 0, "HIGH"), l \in OffsetResults(c, 0, "LOW") :
           h.returnPct >= l.returnPct

\* An asset with falling bars was evaluated: its offset-0 LOW result gains, and
\* its HIGH result gains more.
C21_Witness ==
  /\ klines \in FallingSeries /\ 1 \in evaluated
  /\ \E h \in OffsetResults(1, 0, "HIGH"), l \in OffsetResults(1, 0, "LOW") :
       /\ l.returnPct > 0 /\ h.returnPct > l.returnPct
       /\ h.entryPrice = klines[2].high /\ l.exitPrice = klines[4].close

\* The bars of the evaluated asset that start at or after t, and those of the
\* window that opens at entryTime.
BarsFrom(t) == {i \in DOMAIN klines : klines[i].start >= t}
WindowBars(entryTime) ==
  {i \in DOMAIN klines : klines[i].start >= entryTime
                          /\ klines[i].start < entryTime + HOLD_HOURS}

\* The results of coin c for the base offset h, in the order of the report.
ResultsAt(c, h) == SelectSeq(ResultsOf(c), LAMBDA r : r.entryHours = h)

\* C29: a base offset of an evaluated asset has no result when no bar starts at
\* or after its entryTime, or none at or after its exitTime, or none within
\* [entryTime, exitTime); the asset is evaluated all the same, and each of its
\* offsets has the results its own bars give, whatever the other offsets were.
C29_MissingDataSkipsOffset ==
  \A c \in evaluated :
    \A b \in DOMAIN BASE_SCENARIOS :
      LET h == BASE_SCENARIOS[b].entryHours
      IN /\ (BarsFrom(h) = {} \/ BarsFrom(h + 24) = {} \/ WindowBars(h) = {}) =>
              ResultsAt(c, h) = << >>
         /\ ResultsAt(c, h) = BaseResults(klines, BASE_SCENARIOS[b])

\* An asset whose first bar starts 24 hours after its listing time: offset 0
\* has both anchors and an empty window, and no result; offset 12 has three; the
\* later offsets, with no exit anchor or no entry anchor, none.
C29_Witness ==
  /\ 1 \in evaluated /\ pipePc = "done"
  /\ Len(klines) = 2 /\ klines[1].start = 24 /\ klines[2].start = 36
  /\ BarsFrom(0) # {} /\ BarsFrom(24) # {} /\ WindowBars(0) = {}
  /\ ResultsAt(1, 0) = << >> /\ Len(ResultsAt(1, 12)) = 3
  /\ BarsFrom(24 + 24) = {} /\ BarsFrom(72) = {} /\ Len(ResultsOf(1)) = 3

\* Finite(x): x is a number other than NaN.
WindowHighs(h) == {klines[i].high : i \in WindowBars(h)} \ {NaN}
WindowLows(h) == {klines[i].low : i \in WindowBars(h)} \ {NaN}

\* The profile price of the window of offset h, computed from its bars: Null
\* when no high or no low of the window is finite.
WindowPrice(h, profile) ==
  IF WindowHighs(h) = {} \/ WindowLows(h) = {} THEN Null
  ELSE IF profile = "HIGH" THEN Max(WindowHighs(h))
  ELSE IF profile = "LOW" THEN Min(WindowLows(h))
  ELSE (Max(WindowHighs(h)) + Min(WindowLows(h))) \div 2

\* The offsets of the evaluated asset that have an entry anchor, an exit anchor
\* and a window that is not empty.
Anchored == {h \in BaseOffsets : BarsFrom(h) # {} /\ BarsFrom(h + 24) # {} /\ WindowBars(h) # {}}

ExitClose(h) == klines[Min(BarsFrom(h + 24))].close

\* What C30 says of offset h of coin c.
EmitsPerProfile(c, h) ==
  \A profile \in ProfileIds :
    LET price == WindowPrice(h, profile)
        mine == OffsetResults(c, h, profile)
    IN IF price \in {Null, NaN, 0}
       THEN mine = {}
       ELSE /\ Cardinality(mine) = 1
            /\ \A r \in mine : r.entryPrice = price /\ r.exitPrice = ExitClose(h)

\* C30 as stated: every offset with an entry anchor, an exit anchor and a
\* non-empty window has one result for each profile whose price is finite and
\* not zero and none for the others, with exitPrice the close of the first bar at
\* or after exitTime and entryPrice the profile price of the window.
C30_EmitsPerProfile ==
  \A c \in evaluated : \A h \in Anchored : EmitsPerProfile(c, h)

\* C30 as amended: the same, for the offsets whose exit anchor has a close that
\* is not zero; an offset whose exit anchor closes at zero has no result.
C30_EmitsWhenExitPriced ==
  \A c \in evaluated :
    \A h \in Anchored :
      IF ExitClose(h) = 0 THEN ResultsAt(c, h) = << >> ELSE EmitsPerProfile(c, h)

\* An asset whose offset-0 window has two bars, the second with the lower low
\* and a low of zero: HIGH and MID results are emitted and LOW is not, HIGH
\* priced at the greatest high, MID at a price that no bar has, and both exit
\* at the close of the bar that starts at 24.
C30_Witness ==
  /\ 1 \in evaluated /\ Len(klines) = 3
  /\ klines[1].start = 0 /\ klines[2].start = 12 /\ klines[3].start = 24
  /\ klines[2].low = 0 /\ klines[1].high > klines[2].high /\ klines[3].close > 0
  /\ OffsetResults(1, 0, "LOW") = {}
  /\ \E r \in OffsetResults(1, 0, "HIGH") :
       r.entryPrice = klines[1].high /\ r.exitPrice = klines[3].close
  /\ \E r \in OffsetResults(1, 0, "MID") :
       /\ r.entryPrice \notin {klines[1].high, klines[1].low, klines[1].close}
       /\ 2 * r.entryPrice = klines[1].high + klines[2].low

\* The coins whose fetchOldestDate call has returned.
Discovered == {c \in 1..calBatch : discoveryLog[c].ended = "returned"}

\* The calendar entries of coin c.
EntriesOf(c) == {results[i] : i \in {i \in DOMAIN results : results[i].coin = c}}

\* C22: a discovery whose first page holds at least one bar and fewer than a
\* full page has made exactly one request, and has returned the adjusted date
\* of the oldest bar of that page, which is the date of the coin's entry.
C22_PartialPageOneCall ==
  \A c \in Discovered :
    LET pages == discoveryLog[c].pages
    IN (pages[1].len >= 1 /\ pages[1].len < PageSize) =>
         /\ Len(pages) = 1
         /\ discoveryLog[c].returned = pages[1].oldest - 1
         /\ EntriesOf(c) = {[coin |-> c, listingDate |-> pages[1].oldest - 1,
                              isRecent |-> pages[1].oldest - 1 > sixMonthsAgo]}
         /\ (calPc # "fetch" => executes[1] = responses)

\* The first coin's only page held one bar, today's, and its entry carries
\* yesterday's date.
C22_Witness ==
  /\ 1 \in Discovered
  /\ discoveryLog[1].pages = << [len |-> 1, oldest |-> Today] >>
  /\ discoveryLog[1].returned = Today - 1
  /\ results[1] = [coin |-> 1, listingDate |-> Today - 1, isRecent |-> TRUE]
  /\ executes[1] = 1

\* C26: a discovery whose first page is full has fetched again, and the date
\* it returned comes from the oldest bar of its last page that held a bar.
C26_FullPageFetchesAgain ==
  \A c \in Discovered :
    LET pages == discoveryLog[c].pages
    IN pages[1].len = PageSize =>
         /\ Len(pages) >= 2
         /\ \E k \in DOMAIN pages :
              /\ pages[k].len > 0
              /\ \A j \in DOMAIN pages : j > k => pages[j].len = 0
              /\ discoveryLog[c].returned = pages[k].oldest - 1

\* C27: a discovery returns null exactly when none of its pages held a bar; a
\* coin whose discovery returned null has no entry, and the loop has gone on to
\* the next coin or to the end.
C27_NullWhenNoBar ==
  \A c \in Discovered :
    LET pages == discoveryLog[c].pages
    IN /\ discoveryLog[c].returned = NoListing <=> \A k \in DOMAIN pages : pages[k].len = 0
       /\ discoveryLog[c].returned = NoListing =>
            /\ EntriesOf(c) = {}
            /\ calIdx > c \/ calPc \in {"done", "saveDisk", "saveRedis", "served"}

\* The first coin's discovery got an empty page and returned null; the coin has
\* no entry, and the second coin has one.
C27_Witness ==
  /\ calPc = "done" /\ Discovered = {1, 2}
  /\ discoveryLog[1].returned = NoListing
  /\ discoveryLog[1].pages = << [len |-> 0, oldest |-> NoListing] >>
  /\ EntriesOf(1) = {} /\ EntriesOf(2) # {}

\* The steps in which the catch block of a coin runs, in either pipeline.
StrategyCatch == caught' # caught
CalendarCatch == \E c \in 1..MaxBatch : discoveryLog[c].ended = "no" /\ discoveryLog'[c].ended = "threw"

\* The number of results the report holds for the scenario id.
Contributions(id) ==
  Cardinality({<<a, i>> \in (DOMAIN analyzedCoins) \X (1..Len(grid)) :
                 /\ i \in DOMAIN analyzedCoins[a].scenarios
                 /\ analyzedCoins[a].scenarios[i].scenarioId = id})

\* C28: when the request of a coin has thrown out of the executor (an error
\* that is not a rate limit, or the retries spent), the step that handles it
\* adds nothing to the analyses, the summary counts or the calendar entries and
\* goes on to the next coin, or to the normal end of the batch after the last;
\* the coins already passed keep what they contributed, a coin whose catch block
\* ran has contributed nothing, and the summary counts are those of the
\* analyses only.
C28_FailureSkipsAsset ==
  [][/\ StrategyCatch =>
          /\ pc[1] = "threw" /\ caught' = caught \cup {coinIdx}
          /\ UNCHANGED <<analyzedCoins, summaryMap, evaluated>>
          /\ IF coinIdx < batch THEN coinIdx' = coinIdx + 1 /\ pipePc' = "daily"
                                ELSE pipePc' = "done"
     /\ CalendarCatch =>
          /\ pc[1] = "threw" /\ discoveryLog'[calIdx].ended = "threw"
          /\ UNCHANGED results
          /\ IF calIdx < calBatch THEN calIdx' = calIdx + 1 /\ calPc' = "fetch"
                                  ELSE calPc' = "done"
     /\ \A c \in 1..MaxBatch :
          /\ c \in caught' => ResultsOf(c)' = << >> /\ c \notin evaluated'
          /\ discoveryLog'[c].ended = "threw" => EntriesOf(c)' = {}
          /\ c < coinIdx => ResultsOf(c)' = ResultsOf(c)
          /\ c < calIdx => EntriesOf(c)' = EntriesOf(c)
     /\ \A id \in ScenarioIds : summaryMap'[id].count = Contributions(id)']_vars

\* A batch of two coins has ended: the request of the first failed, and the
\* second has its analysis and its counts (strategy) or its entry (calendar).
C28_Witness ==
  \/ /\ pipePc = "done" /\ batch = 2 /\ caught = {1} /\ evaluated = {2}
     /\ Len(analyzedCoins) = 1 /\ analyzedCoins[1].coin = 2
     /\ summaryMap["D0_OPEN_HIGH"].count = 1
  \/ /\ calPc = "done" /\ calBatch = 2 /\ discoveryLog[1].ended = "threw"
     /\ Len(results) = 1 /\ results[1].coin = 2

\* The number of results the report holds for the scenario id whose returnPct
\* is positive.
PositiveContributions(id) ==
  Cardinality({<<a, i>> \in (DOMAIN analyzedCoins) \X (1..Len(grid)) :
                 /\ i \in DOMAIN analyzedCoins[a].scenarios
                 /\ analyzedCoins[a].scenarios[i].scenarioId = id
                 /\ analyzedCoins[a].scenarios[i].returnPct > 0})

\* C31: in the report of a finished batch, the success rate of every scenario
\* is the share, in percent to one decimal, of the report's results of that
\* scenario whose returnPct is positive, and it is null exactly when the sample
\* size is 0.
C31_SuccessRate ==
  pipePc = "done" =>
    \A i \in DOMAIN Report.summary :
      LET row == Report.summary[i]
      IN /\ row.successRate = Null <=> row.sampleSize = 0
         /\ row.sampleSize # 0 =>
              row.successRate = toFixed1(PositiveContributions(row.scenarioId),
                                         Contributions(row.scenarioId))

\* C32: the sample size of every scenario of the summary is the number of
\* results of that scenario over the analyses of the report; every analysis
\* listed has a result, and no two of one scenario; coinsAnalyzed is the length
\* of the list of analyses and at most the size of the batch, the first
\* maxCoins coins of the catalog.
C32_SummaryCounts ==
  /\ \A i \in DOMAIN Report.summary :
       Report.summary[i].sampleSize = Contributions(Report.summary[i].scenarioId)
  /\ \A a \in DOMAIN Report.coins :
       /\ Len(Report.coins[a].scenarios) >= 1
       /\ \A i, j \in DOMAIN Report.coins[a].scenarios :
            i # j => Report.coins[a].scenarios[i].scenarioId
                       # Report.coins[a].scenarios[j].scenarioId
  /\ Report.coinsAnalyzed = Len(Report.coins)
  /\ Report.coinsAnalyzed <= batch

\* A batch of two coins has ended with both analysed: a scenario counts both, of
\* which one result lost, and another scenario counts none.
C32_Witness ==
  /\ pipePc = "done" /\ batch = 2 /\ Report.coinsAnalyzed = 2
  /\ \E i, j \in DOMAIN Report.summary :
       /\ Report.summary[i].sampleSize = 2 /\ summaryMap[grid[i].id].wins < 2
       /\ Report.summary[j].sampleSize = 0

\* The place of a result in the canonical grid: offsets ascending, and HIGH, MID,
\* LOW within an offset.
CanonicalRank(r) ==
  CHOOSE i \in DOMAIN LISTING_SCENARIOS :
    /\ LISTING_SCENARIOS[i].entryHours = r.entryHours
    /\ LISTING_SCENARIOS[i].priceProfile = r.priceProfile

\* The analyses are of coins of the batch in the order of the batch, and the
\* results of each are in the order of the grid.
InCatalogOrder ==
  /\ \A a \in DOMAIN analyzedCoins : analyzedCoins[a].coin \in 1..batch
  /\ \A a, b \in DOMAIN analyzedCoins : a < b => analyzedCoins[a].coin < analyzedCoins[b].coin
  /\ \A a \in DOMAIN analyzedCoins :
       \A i, j \in DOMAIN analyzedCoins[a].scenarios :
         i < j => CanonicalRank(analyzedCoins[a].scenarios[i])
                    < CanonicalRank(analyzedCoins[a].scenarios[j])

\* C33: within one batch the coins are taken one at a time in the order of the
\* catalog: every request, evaluation and analysis is of the current coin, the
\* next coin becomes current only when nothing of the current one is pending,
\* the analyses are in catalog order and the results of each in grid order.
C33_OneAtATime ==
  [][/\ \/ coinIdx' = coinIdx
        \/ /\ coinIdx' = coinIdx + 1
           /\ ~InExecute(1)
           /\ pipePc \in {"daily", "hourlyWait", "cooldown"}
           /\ pipePc' = "daily"
     /\ pipePc # "off" =>
          /\ executes'[1] # executes[1] => executes'[1] = coinIdx
          /\ \A f \in hourlyFetches' \ hourlyFetches : f.coin = coinIdx
          /\ evaluated' \ evaluated \subseteq {coinIdx}
          /\ caught' \ caught \subseteq {coinIdx}
          /\ analyzedCoins' # analyzedCoins =>
               /\ Len(analyzedCoins') = Len(analyzedCoins) + 1
               /\ SubSeq(analyzedCoins', 1, Len(analyzedCoins)) = analyzedCoins
               /\ analyzedCoins'[Len(analyzedCoins')].coin = coinIdx
          /\ InCatalogOrder']_vars

\* A batch of two coins has ended with both analysed, the second with the
\* results of two offsets.
C33_Witness ==
  /\ pipePc = "done" /\ batch = 2 /\ Len(analyzedCoins) = 2
  /\ analyzedCoins[1].coin = 1 /\ analyzedCoins[2].coin = 2
  /\ Len(analyzedCoins[2].scenarios) >= 6

\* C34: when an attempt of execute fails with a 429 and it is failure number n
\* of the call, n at most maxRetries, execute sleeps retryBackoffMs * n; it goes
\* on only when that sleep is over, and through throttle(): the next attempt
\* starts at least the backoff and at least minIntervalMs after the one before.
C34_LinearBackoff ==
  [][\A c \in Callers :
       /\ (pc[c] = "inFn" /\ pc'[c] # "inFn"
             /\ OpOutcome(script[c], calls[c]) # Ok
             /\ isRetryable(OpOutcome(script[c], calls[c]))
             /\ attempt[c] + 1 <= maxRetries) =>
            /\ pc'[c] = "backoff"
            /\ attempt'[c] = attempt[c] + 1
            /\ wakeAt'[c] = now + retryBackoffMs * attempt'[c]
       /\ pc'[c] = "backoff" /\ pc[c] # "backoff" =>
            /\ pc[c] = "inFn" /\ attempt'[c] \in 1..maxRetries
            /\ isRetryable(OpOutcome(script[c], calls[c]))
       /\ pc[c] = "backoff" /\ pc'[c] # "backoff" =>
            /\ now >= wakeAt[c]
            /\ IF MustSleep
               THEN /\ pc'[c] = "throttleSleep"
                    /\ wakeAt'[c] = lastCallTimestamp + minIntervalMs
                    /\ calls'[c] = calls[c]
               ELSE pc'[c] = "inFn" /\ calls'[c] = calls[c] + 1
       /\ calls[c] >= 1 /\ calls'[c] = calls[c] + 1 =>
            /\ now - lastAttemptAt >= minIntervalMs
            /\ now - lastAttemptAt >= retryBackoffMs * attempt[c]]_vars

\* The third attempt of a call is running: the call slept one backoff after its
\* first 429 and two after its second, and the pacing interval each time.
C34_Witness ==
  \E c \in Callers :
    /\ pc[c] = "inFn" /\ calls[c] = 3 /\ attempt[c] = 2 /\ backoffs[c] = 2
    /\ retryBackoffMs = 1 /\ minIntervalMs >= 1
    /\ lastAttemptAt - prevAttemptAt >= 2

\* C35: a call of stop() made while a run is in flight leaves the run as it is
\* (the run goes on to store its result and write the tiers), and the status
\* reported after the call, the run still being in flight, is running.
C35_StopKeepsRunning ==
  [][(InFlight # {} /\ stopped' /\ UNCHANGED <<runs, startPc, now>>) =>
       /\ InFlight' = InFlight
       /\ getSnapshot'.status = "running"]_vars

\* C36: the listing date adjustListingDate returns is the day before the KST
\* calendar day of the bar's timestamp, whatever the KST time of day of the
\* timestamp.
C36_DayBeforeKstDate ==
  listingDate # NoListing => listingDate = kstTimestamp.day - 1

\* C37: a calendar run in which every coin was skipped replaces neither the
\* non-empty entries served before it nor the non-empty content of a tier.
C37_EmptyRunKeepsServed ==
  [][(results = << >> /\ calPc \in {"done", "saveDisk", "saveRedis"}) =>
       /\ calServed.entries # << >> => calServed'.entries = calServed.entries
       /\ calTiers.disk.entries # << >> => calTiers'.disk = calTiers.disk
       /\ calTiers.redis.entries # << >> => calTiers'.redis = calTiers.redis]_vars

\* C38: once a calendar run has stored its entries, the entries served are in
\* descending order of listingDate, no two are of one coin, all are of coins of
\* the batch (the first maxCoins of the catalog) and they are at most as many,
\* and recentCount is the number of them flagged isRecent.
C38_ServedEntries ==
  calPc \in {"saveDisk", "saveRedis", "served"} =>
    LET entries == calServed.entries
    IN /\ \A i, j \in DOMAIN entries :
            i < j => /\ entries[i].listingDate >= entries[j].listingDate
                     /\ entries[i].coin # entries[j].coin
       /\ \A i \in DOMAIN entries : entries[i].coin \in 1..calBatch
       /\ Len(entries) <= calBatch
       /\ calServed.recentCount = Cardinality({i \in DOMAIN entries : entries[i].isRecent})

\* A run over two coins is over: the second coin was listed later than the
\* first and is served first, and only it is recent.
C38_Witness ==
  /\ calPc = "served" /\ calBatch = 2 /\ Len(calServed.entries) = 2
  /\ calServed.entries[1].coin = 2 /\ calServed.entries[2].coin = 1
  /\ calServed.entries[1].listingDate > calServed.entries[2].listingDate
  /\ calServed.recentCount = 1

\* C25: a response sent from the ticker cache carries a payload that upstream
\* gave at most the TTL before the request, and it is the entry of its key; a
\* request that is not answered from the cache fetches, and it leaves an entry
\* unused only when the entry, restored from the file or not, is older than the
\* TTL, and then deletes it.
C25_TickerTtl ==
  [][/\ (served' # served /\ served'.source = "cache") =>
          /\ served'.at = now /\ now - served'.data <= TtlTicks
          /\ tickerCache[served'.key] = [present |-> TRUE, data |-> served'.data,
                                         fetchedAt |-> served'.data]
     /\ \A q \in Requests :
          (reqPc[q] = "idle" /\ reqPc'[q] = "fetching") =>
            /\ tickerCache[reqKey'[q]].present => now - tickerCache[reqKey'[q]].data > TtlTicks
            /\ ~tickerCache'[reqKey'[q]].present
            /\ served'.source # "cache"]_vars

\* A payload was fetched and written to the file, the process was restarted
\* more than the TTL later, and a request found the entry the file gave back:
\* the entry is gone from the cache and the request is fetching.
C25_Witness ==
  /\ restarts = 1
  /\ \E q \in Requests :
       /\ reqPc[q] = "fetching"
       /\ tickerFile[reqKey[q]].present /\ tickerFile[reqKey[q]].fetchedAt >= 1
       /\ now - tickerFile[reqKey[q]].fetchedAt > TtlTicks
       /\ ~tickerCache[reqKey[q]].present

\* Both tiers hold what run r wrote.
BothWrittenBy(r) == diskTier'.data.gen = r /\ redisTier'.data.gen = r

\* The steps in which a start() loads a snapshot from a tier.
Loads(s) ==
  \/ startLog[s].redis = "untried" /\ startLog'[s].redis = "hit"
  \/ startLog[s].disk = "untried" /\ startLog'[s].disk = "hit"

C24_SnapshotFrame ==
  [][snapshot' # NoRead =>
       /\ UNCHANGED <<status, lastUpdated, nextRunAt, report, lastError, timer, leaked,
                      runs, runSeq, diskTier, redisTier, startPc, lastTrigger>>
       /\ snapshot' = getSnapshot]_vars

\* getSnapshot() has returned while a run was computing.
C24_Witness ==
  /\ snapshot # NoRead /\ snapshot.status = "running"
  /\ Computing # {} /\ snapshot = getSnapshot

====
